---- MODULE Spec2Model ----
\* Model of the ART pipeline resolver of art-bot: the memoized doozer tables
\* (artbotlib/util.py cached, artbotlib/pipeline_image_util.py), the per-stage
\* lookups and the drivers (artbotlib/pipeline_image_names.py
\* pipeline_from_distgit and the helper drivers of pipeline_image_util.py).
EXTENDS Integers, Sequences, FiniteSets, TLC

VARIABLES
    CACHE,              \* util.CACHE: the one LRUCache shared by every @util.cached function
    ret,                \* the last call made directly into the lookup layer and what it returned
    called,             \* the memoized table functions called so far, as <<function, version>>
    cmdCount,           \* external `doozer` invocations made by direct calls, per <<function, version>>
    httpCount,          \* HTTP requests issued by direct calls of the entity lookups
    nCalls,             \* number of direct calls made so far
    driver,             \* the driver function that is running
    pc,                 \* position of the running driver
    distgit_repo_name,  \* the driver's input entity
    version,            \* the driver's version argument ("" when the user gave none)
    payload,            \* the report accumulated so far, a sequence of lines
    said,               \* messages sent through so.say, in order
    monitoring,         \* messages sent through so.monitoring_say, in order
    calls,              \* lookups issued so far by the driver, in order
    exc,                \* the exception in flight ("" when none)
    brew_package_name,  \* local of the driver
    cdn_repo_names,     \* local of the driver
    cdn_name,           \* the CDN repo a driver starts from
    idx,                \* index of the CDN repo the for loop is at
    workers,            \* the pool's workers inside a memoized call: their position and locals
    LOCK,               \* util.LOCK: the worker holding it (0 when free)
    job,                \* the locals of the running polling request
    active_slack_objects \* exectools.active_slack_objects

cacheVars == <<CACHE, ret, called, cmdCount, httpCount, nCalls>>
driverVars == <<driver, pc, distgit_repo_name, version, payload, said, monitoring,
                calls, exc, brew_package_name, cdn_repo_names, cdn_name, idx>>
poolVars == <<workers, LOCK, job, active_slack_objects>>
vars == <<CACHE, ret, called, cmdCount, httpCount, nCalls,
          driver, pc, distgit_repo_name, version, payload, said, monitoring,
          calls, exc, brew_package_name, cdn_repo_names, cdn_name, idx,
          workers, LOCK, job, active_slack_objects>>

-----------------------------------------------------------------------------
\* Bounds

MaxCalls == 3   \* direct calls into the lookup layer per behaviour
MaxCdn == 2     \* CDN repos a Brew package maps to
MaxWorkers == 2 \* pool workers inside the same memoized call at once
MaxJobs == 2    \* Prow jobs one request watches
TWELVE_HOURS == 4 \* constants.TWELVE_HOURS counted in sleeps of FIVE_MINUTES (144 in the code)

-----------------------------------------------------------------------------
\* The external world: what `doozer images:print` knows per version.

Versions == {"4.10", "4.11"}

\* One record per component of the group: dist-git name, upstream_public, brew component.
\* In 4.10 two components ("d1", "d2") are built from the same upstream repo.
Components(v) ==
    IF v = "4.10"
    THEN << [name |-> "d1", upstream |-> "openshift/g1", component |-> "b1"],
            [name |-> "d2", upstream |-> "openshift/g1", component |-> "d2-container"] >>
    ELSE << [name |-> "d1", upstream |-> "openshift/g2", component |-> "b1"] >>

\* str.split("/")[-1] on the upstream strings of the world; a string without "/" is its own last segment.
LastSegment(s) ==
    CASE s = "openshift/g1" -> "g1"
      [] s = "openshift/g2" -> "g2"
      [] OTHER -> s

\* The stdout of `doozer ... images:print --short '<fmt>'`, already cut into lines and
\* each line cut at ": " (splitlines / split(": ")).
PrintShort(fmt, v) ==
    [i \in 1..Len(Components(v)) |->
        LET c == Components(v)[i] IN
        CASE fmt = "upstream_public: name" -> <<c.upstream, c.name>>
          [] fmt = "name: upstream_public" -> <<c.name, c.upstream>>
          [] OTHER -> <<c.component, c.name>>]

\* What one run of the external command can come back with: (rc, stdout, stderr).
\*   ok     - exit 0 and the table
\*   empty  - exit 0 and no output
\*   gssapi - non-zero exit, stderr mentions koji.GSSAPIAuthError
\*   fail   - non-zero exit for another reason, no output
CmdOutcomes == {"ok", "empty", "gssapi", "fail"}

cmd_gather(fmt, v, o) ==
    [rc  |-> IF o \in {"ok", "empty"} THEN 0 ELSE 1,
     out |-> IF o = "ok" THEN PrintShort(fmt, v) ELSE <<>>,
     gss |-> (o = "gssapi")]

-----------------------------------------------------------------------------
\* Results of a call: exc = "" and a value, or the name of the exception raised.

NoValue == [shape |-> "none"]
Return(val) == [exc |-> "", val |-> val]
Raise(e) == [exc |-> e, val |-> NoValue]

Str(s) == [shape |-> "str", s |-> s]
List(l) == [shape |-> "list", l |-> l]

-----------------------------------------------------------------------------
\* util.cached: cachetools.cached(CACHE, lock=LOCK) with the default key function,
\* which hashes the positional arguments only.

hashkey_with_function(fn, args) == <<fn>> \o args

hashkey(fn, args) == args

\* One call through the wrapper: a hit returns the stored value without running the
\* function; a miss runs it, stores the value unless it raised, and returns it.
\* `body` is the result the wrapped function gives when run.
cached(cache, fn, args, body) ==
    LET k == hashkey(fn, args) IN
    IF k \in DOMAIN cache
    THEN [result |-> Return(cache[k]), cache |-> cache, ran |-> FALSE]
    ELSE [result |-> body,
          cache  |-> IF body.exc = "" THEN (k :> body.val) @@ cache ELSE cache,
          ran    |-> TRUE]

-----------------------------------------------------------------------------
\* The memoized table functions of pipeline_image_util.py (function bodies).

EmptyMap == [k \in {} |-> <<>>]

RECURSIVE github_distgit_loop(_, _)
github_distgit_loop(lines, mappings) ==
    IF lines = <<>> THEN mappings
    ELSE LET github == Head(lines)[1]
             distgit == Head(lines)[2]
             reponame == LastSegment(github)
         IN  github_distgit_loop(Tail(lines),
                IF github \notin DOMAIN mappings
                THEN [k \in DOMAIN mappings \cup {reponame} |->
                         IF k = reponame THEN <<distgit>> ELSE mappings[k]]
                ELSE [mappings EXCEPT ![reponame] = Append(@, distgit)])

\* the function body after the command has come back with r = (rc, out, err)
github_distgit_mappings_of(r) ==
    IF r.rc # 0
    THEN IF r.gss THEN Raise("KerberosAuthenticationError") ELSE Raise("RuntimeError")
    ELSE IF r.out = <<>>
         THEN Raise("NullDataReturned")
         ELSE Return([shape |-> "repo_to_distgits", map |-> github_distgit_loop(r.out, EmptyMap)])

github_distgit_mappings(v, o) ==
    github_distgit_mappings_of(cmd_gather("upstream_public: name", v, o))

\* a dict filled line by line with d[line[0]] = line[1]: the last line wins for a repeated key
dict_of(lines) ==
    [k \in {lines[i][1] : i \in 1..Len(lines)} |->
        lines[CHOOSE i \in 1..Len(lines) :
                 /\ lines[i][1] = k
                 /\ \A j \in 1..Len(lines) : lines[j][1] = k => j <= i][2]]

distgit_github_mappings_of(r) ==
    IF r.rc # 0
    THEN IF r.gss THEN Raise("KerberosAuthenticationError") ELSE Raise("RuntimeError")
    ELSE IF r.out = <<>>
         THEN Raise("NullDataReturned")
         ELSE Return([shape |-> "distgit_to_upstream", map |-> dict_of(r.out)])

distgit_github_mappings(v, o) ==
    distgit_github_mappings_of(cmd_gather("name: upstream_public", v, o))

doozer_brew_distgit_of(r) ==
    IF r.gss
    THEN Raise("KerberosAuthenticationError")
    ELSE Return([shape |-> "rows", rows |-> r.out])

doozer_brew_distgit(v, o) ==
    doozer_brew_distgit_of(cmd_gather("component: name", v, o))

TableFunctions == {"github_distgit_mappings", "distgit_github_mappings", "doozer_brew_distgit"}

TableBody(fn, v, o) ==
    CASE fn = "github_distgit_mappings" -> github_distgit_mappings(v, o)
      [] fn = "distgit_github_mappings" -> distgit_github_mappings(v, o)
      [] OTHER -> doozer_brew_distgit(v, o)

-----------------------------------------------------------------------------
\* The build-recipe document images/<distgit>.yml of ocp-build-data, as far as the
\* lookups read it, and the HTTP responses a GET of it can give.

Docs ==
    { [component |-> "",   update_csv |-> FALSE, bundle_component |-> "",        for_payload |-> TRUE],
      [component |-> "b1", update_csv |-> TRUE,  bundle_component |-> "",        for_payload |-> FALSE],
      [component |-> "b1", update_csv |-> TRUE,  bundle_component |-> "bundle1", for_payload |-> FALSE] }

NoDoc == [component |-> "", update_csv |-> FALSE, bundle_component |-> "", for_payload |-> FALSE]

HttpResponses == {[status |-> 404, doc |-> NoDoc]} \cup {[status |-> 200, doc |-> d] : d \in Docs}

\* f"{distgit_name}-container"
DefaultBrewName(d) ==
    CASE d = "d1" -> "d1-container"
      [] d = "d2" -> "d2-container"
      [] OTHER -> "dX-container"

\* yml_file['name'].split("/")[1] with a leading "ose-" removed; the recipes name
\* their image "openshift/ose-<distgit>".
ImageStreamTag(d) == d

-----------------------------------------------------------------------------
\* The per-stage lookups of pipeline_image_util.py that take (entity, version).
\* Each operator gives the call's result, the cache afterwards, whether the external
\* command ran (and for which table function) and how many HTTP requests were made.

Outcome(result, cache, ranFn, http) ==
    [result |-> result, cache |-> cache, ranFn |-> ranFn, http |-> http]

\* A call of a memoized table function through its wrapper.
table_outcome(c, fn) == Outcome(c.result, c.cache, IF c.ran THEN fn ELSE "", 0)

table_call(cache, fn, v, o) ==
    table_outcome(cached(cache, fn, <<v>>, TableBody(fn, v, o)), fn)

\* data[github_name] on what github_distgit_mappings(version) gave (t)
github_to_distgit_in(t, github_name) ==
    IF t.result.exc # "" THEN t
    ELSE CASE t.result.val.shape = "rows" ->
                \* a list indexed by a string
                [t EXCEPT !.result = Raise("TypeError")]
           [] t.result.val.shape = "repo_to_distgits" ->
                IF github_name \in DOMAIN t.result.val.map
                THEN [t EXCEPT !.result = Return(List(t.result.val.map[github_name]))]
                ELSE [t EXCEPT !.result = Raise("DistgitFromGithubNotFound")]
           [] OTHER ->
                IF github_name \in DOMAIN t.result.val.map
                THEN [t EXCEPT !.result = Return(Str(t.result.val.map[github_name]))]
                ELSE [t EXCEPT !.result = Raise("DistgitFromGithubNotFound")]

github_to_distgit(cache, github_name, v, o) ==
    github_to_distgit_in(table_call(cache, "github_distgit_mappings", v, o), github_name)

\* data[distgit_name].split('/')[-1] on what distgit_github_mappings(version) gave (t)
distgit_to_github_in(t, distgit_name) ==
    IF t.result.exc # "" THEN t
    ELSE CASE t.result.val.shape = "rows" ->
                [t EXCEPT !.result = Raise("TypeError")]
           [] t.result.val.shape = "distgit_to_upstream" ->
                IF distgit_name \in DOMAIN t.result.val.map
                THEN [t EXCEPT !.result = Return(Str(LastSegment(t.result.val.map[distgit_name])))]
                ELSE [t EXCEPT !.result = Raise("GithubFromDistgitNotFound")]
           [] OTHER ->
                \* list.split does not exist
                IF distgit_name \in DOMAIN t.result.val.map
                THEN [t EXCEPT !.result = Raise("AttributeError")]
                ELSE [t EXCEPT !.result = Raise("GithubFromDistgitNotFound")]

distgit_to_github(cache, distgit_name, v, o) ==
    distgit_to_github_in(table_call(cache, "distgit_github_mappings", v, o), distgit_name)

\* the dict built from what doozer_brew_distgit(version) gave (t), then dict_data[brew_name]
brew_to_distgit_in(t, brew_name) ==
    IF t.result.exc # "" THEN t
    ELSE IF t.result.val.shape = "rows"
         THEN IF t.result.val.rows = <<>>
              THEN [t EXCEPT !.result = Raise("NullDataReturned")]
              ELSE IF brew_name \in DOMAIN dict_of(t.result.val.rows)
                   THEN [t EXCEPT !.result = Return(Str(dict_of(t.result.val.rows)[brew_name]))]
                   ELSE [t EXCEPT !.result = Raise("BrewToDistgitMappingNotFound")]
         \* iterating a dict yields its keys; line[0] and line[1] are then the first
         \* two characters of a key, which no brew name equals
         ELSE [t EXCEPT !.result = Raise("BrewToDistgitMappingNotFound")]

brew_to_distgit(cache, brew_name, v, o) ==
    brew_to_distgit_in(table_call(cache, "doozer_brew_distgit", v, o), brew_name)

\* the recipe read whatever the status of its GET
distgit_to_brew_any_status(cache, distgit_name, v, response) ==
    Outcome(IF response.doc.component # "" THEN Return(Str(response.doc.component))
            ELSE Return(Str(DefaultBrewName(distgit_name))), cache, "", 1)

distgit_to_brew(cache, distgit_name, v, response) ==
    Outcome(IF response.status # 200 THEN Raise("DistgitNotFound")
            ELSE IF response.doc.component # "" THEN Return(Str(response.doc.component))
            ELSE Return(Str(DefaultBrewName(distgit_name))),
            cache, "", 1)

get_image_stream_tag(cache, distgit_name, v, response) ==
    Outcome(IF response.doc.for_payload THEN Return(Str(ImageStreamTag(distgit_name)))
            ELSE Return(NoValue),
            cache, "", 1)

require_bundle_build(cache, distgit_name, v, response) ==
    Outcome(IF response.status # 200 THEN Raise("DistgitNotFound")
            ELSE Return([shape |-> "bool", b |-> response.doc.update_csv]),
            cache, "", 1)

get_bundle_override(cache, distgit_name, v, response) ==
    Outcome(IF response.status # 200 THEN Raise("DistgitNotFound")
            ELSE IF response.doc.bundle_component # "" THEN Return(Str(response.doc.bundle_component))
            ELSE Return(NoValue),
            cache, "", 1)

-----------------------------------------------------------------------------
\* Direct calls into the lookup layer within one process (SpecCache).

GithubNames == {"g1", "g2"}
DistgitNames == {"d1", "d2"}
BrewNames == {"b1", "d2-container"}

\* cmd: what the external command answered when the call ran it ("" when it did not)
NoCall == [fn |-> "", args |-> <<>>, exc |-> "", val |-> NoValue, cmd |-> ""]

\* no worker is inside a memoized call and no polling request is running
NoPool ==
    /\ workers = <<>>
    /\ LOCK = 0
    /\ job = <<>>
    /\ active_slack_objects = {}

NoDriver ==
    /\ driver = "none"
    /\ pc = "idle"
    /\ distgit_repo_name = ""
    /\ version = ""
    /\ payload = <<>>
    /\ said = <<>>
    /\ monitoring = <<>>
    /\ calls = <<>>
    /\ exc = ""
    /\ brew_package_name = ""
    /\ cdn_repo_names = <<>>
    /\ cdn_name = ""
    /\ idx = 0

\* A fresh process: nothing cached, nothing called.
InitCache ==
    /\ CACHE = <<>>
    /\ ret = NoCall
    /\ called = [k \in TableFunctions \X Versions |-> {}]
    /\ cmdCount = [k \in TableFunctions \X Versions |-> 0]
    /\ httpCount = 0
    /\ nCalls = 0
    /\ NoDriver
    /\ NoPool

\* The bookkeeping of one direct call fn(args) whose outcome is `out`; `table` is the
\* memoized table function the call goes through ("" when none) for version v, and o
\* what the external command would answer.
Record(fn, args, table, v, o, out) ==
    /\ nCalls < MaxCalls
    /\ nCalls' = nCalls + 1
    /\ CACHE' = out.cache
    /\ ret' = [fn |-> fn, args |-> args, exc |-> out.result.exc, val |-> out.result.val,
               cmd |-> IF out.ranFn = "" THEN "" ELSE o]
    /\ called' = IF table = "" THEN called
                 ELSE [called EXCEPT ![<<table, v>>] =
                          @ \cup {IF table_call(CACHE, table, v, o).result.exc = ""
                                  THEN "returned" ELSE "raised"}]
    /\ cmdCount' = IF out.ranFn = "" THEN cmdCount
                   ELSE [cmdCount EXCEPT ![<<out.ranFn, v>>] = @ + 1]
    /\ httpCount' = httpCount + out.http
    /\ UNCHANGED driverVars
    /\ UNCHANGED poolVars

CallGithubDistgitMappings ==
    \E v \in Versions, o \in CmdOutcomes :
        Record("github_distgit_mappings", <<v>>, "github_distgit_mappings", v, o,
               table_call(CACHE, "github_distgit_mappings", v, o))

CallDistgitGithubMappings ==
    \E v \in Versions, o \in CmdOutcomes :
        Record("distgit_github_mappings", <<v>>, "distgit_github_mappings", v, o,
               table_call(CACHE, "distgit_github_mappings", v, o))

CallDoozerBrewDistgit ==
    \E v \in Versions, o \in CmdOutcomes :
        Record("doozer_brew_distgit", <<v>>, "doozer_brew_distgit", v, o,
               table_call(CACHE, "doozer_brew_distgit", v, o))

CallGithubToDistgit ==
    \E g \in GithubNames, v \in Versions, o \in CmdOutcomes :
        Record("github_to_distgit", <<g, v>>, "github_distgit_mappings", v, o,
               github_to_distgit(CACHE, g, v, o))

CallDistgitToGithub ==
    \E d \in DistgitNames, v \in Versions, o \in CmdOutcomes :
        Record("distgit_to_github", <<d, v>>, "distgit_github_mappings", v, o,
               distgit_to_github(CACHE, d, v, o))

CallBrewToDistgit ==
    \E b \in BrewNames, v \in Versions, o \in CmdOutcomes :
        Record("brew_to_distgit", <<b, v>>, "doozer_brew_distgit", v, o,
               brew_to_distgit(CACHE, b, v, o))

CallDistgitToBrew ==
    \E d \in DistgitNames, v \in Versions, r \in HttpResponses :
        Record("distgit_to_brew", <<d, v>>, "", v, "ok", distgit_to_brew(CACHE, d, v, r))

CallGetImageStreamTag ==
    \E d \in DistgitNames, v \in Versions, r \in HttpResponses :
        Record("get_image_stream_tag", <<d, v>>, "", v, "ok", get_image_stream_tag(CACHE, d, v, r))

CallRequireBundleBuild ==
    \E d \in DistgitNames, v \in Versions, r \in HttpResponses :
        Record("require_bundle_build", <<d, v>>, "", v, "ok", require_bundle_build(CACHE, d, v, r))

CallGetBundleOverride ==
    \E d \in DistgitNames, v \in Versions, r \in HttpResponses :
        Record("get_bundle_override", <<d, v>>, "", v, "ok", get_bundle_override(CACHE, d, v, r))

NextCache ==
    \/ CallGithubDistgitMappings
    \/ CallDistgitGithubMappings
    \/ CallDoozerBrewDistgit
    \/ CallGithubToDistgit
    \/ CallDistgitToGithub
    \/ CallBrewToDistgit
    \/ CallDistgitToBrew
    \/ CallGetImageStreamTag
    \/ CallRequireBundleBuild
    \/ CallGetBundleOverride

SpecCache == InitCache /\ [][NextCache]_vars

-----------------------------------------------------------------------------
\* C8: github_distgit_mappings(v) returns a map from repo name to dist-git lists and
\* distgit_github_mappings(v) a map from dist-git name to upstream repo, whatever
\* memoized functions were called before: no function returns a value that another
\* memoized function computed.
C8_TablesKeepTheirShape ==
    /\ (ret.fn = "github_distgit_mappings" /\ ret.exc = "")
          => ret.val.shape = "repo_to_distgits"
    /\ (ret.fn = "distgit_github_mappings" /\ ret.exc = "")
          => ret.val.shape = "distgit_to_upstream"

\* C9: a lookup taking (entity, version) that has returned a result and is called again
\* with the same arguments (here: twice in a row) returns the identical result and
\* performs no external call, neither a doozer invocation nor an HTTP request.
EntityLookups == {"github_to_distgit", "distgit_to_github", "brew_to_distgit", "distgit_to_brew",
                  "get_image_stream_tag", "require_bundle_build", "get_bundle_override"}

C9_SecondCallIsCached ==
    [][(/\ nCalls' = nCalls + 1
        /\ ret.fn \in EntityLookups
        /\ ret.exc = ""
        /\ ret'.fn = ret.fn
        /\ ret'.args = ret.args)
       => (/\ ret'.exc = ret.exc
           /\ ret'.val = ret.val
           /\ cmdCount' = cmdCount
           /\ httpCount' = httpCount)]_vars

\* C10 (as claimed): once github_distgit_mappings(v) and distgit_github_mappings(v) have
\* both been called for a version, the external command has been invoked exactly once
\* for that version by the two of them.
MappingCalls(v) ==
    cmdCount[<<"github_distgit_mappings", v>>] + cmdCount[<<"distgit_github_mappings", v>>]

OtherMapping(f) ==
    IF f = "github_distgit_mappings" THEN "distgit_github_mappings" ELSE "github_distgit_mappings"

-----------------------------------------------------------------------------
\* The drivers.  A report is a sequence of lines <<label, identifier>>; a message
\* sent through say is a report.

Line(label, arg) == <<label, arg>>

FetchingNotice == << Line("Fetching data. Please wait...", "") >>
GithubLines(g, d) ==
    << Line("Upstream GitHub repository", g),
       Line("Private GitHub repository", g),
       Line("Production dist-git repo", d) >>
BrewLine(b) == Line("Production brew builds", b)
TagLine(t) == Line("Payload tag", t)
MoreThanOneNotice == Line("Found more than one Brew to CDN mappings", "")
CdnLine(c) == Line("CDN repo", c)
DeliveryLine(r) == Line("Delivery (Comet) repo", r)
BundleComponentLine(b) == Line("Bundle Component", b)
BundleDistgitLine(d) == Line("Bundle Distgit", d)
NoDistgitLine(d) == Line("No distgit repo with name exists", d)
Blank == Line("", "")
MessageLine(e) == Line("e.message", e)

\* The release-management and catalog world.
CdnRepos == {"c1", "c2", "c3"}

\* The variants a CDN repo is bound to; "c3" belongs to another variant.
VariantsOf(c) == IF c = "c3" THEN {"8Base-RHOSE-4.9"} ELSE {"8Base-RHOSE-4.10", "8Base-RHOSE-4.11"}

\* external_name of a CDN repo
ExternalName(c) ==
    CASE c = "c1" -> "openshift4/r1"
      [] c = "c2" -> "openshift4/r2"
      [] OTHER -> "openshift4/r3"

\* f"8Base-RHOSE-{version}"
Variant(v) == IF v = "4.10" THEN "8Base-RHOSE-4.10" ELSE "8Base-RHOSE-4.11"

\* f"{'-'.join(brew_name.split('-')[:-1])}-metadata-component"
DefaultBundleComponent(b) ==
    CASE b = "d1-container" -> "d1-metadata-component"
      [] b = "d2-container" -> "d2-metadata-component"
      [] OTHER -> "b1-metadata-component"

\* f"{distgit_repo_name}-bundle"
BundleDistgit(d) ==
    CASE d = "d1" -> "d1-bundle"
      [] OTHER -> "d2-bundle"

\* Sequences over S of length 0..n
RECURSIVE SeqsUpTo(_, _)
SeqsUpTo(S, n) ==
    IF n = 0 THEN {<<>>}
    ELSE LET shorter == SeqsUpTo(S, n - 1) IN
         shorter \cup {Append(q, x) : q \in {r \in shorter : Len(r) = n - 1}, x \in S}

Range(q) == {q[i] : i \in 1..Len(q)}

\* The orders list(set(repos)) can come out in.
Orderings(S) == {q \in SeqsUpTo(S, Cardinality(S)) : Len(q) = Cardinality(S) /\ Range(q) = S}

-----------------------------------------------------------------------------
\* pipeline_image_names.py: the exception classes it defines and its lookups.

ArtBotExceptions ==
    {"DistgitNotFound", "CdnFromBrewNotFound", "CdnNotFound", "DeliveryRepoNotFound",
     "BrewIdNotFound", "VariantIdNotFound", "CdnIdNotFound", "ProductIdNotFound",
     "DeliveryRepoUrlNotFound", "DeliveryRepoIDNotFound", "GithubFromDistgitNotFound"}

\* the except clause of pipeline_from_distgit an exception is caught by
ExceptClause(e) ==
    CASE e \in ArtBotExceptions -> "ArtBotExceptions"
      [] e = "KerberosAuthenticationError" -> "KerberosAuthenticationError"
      [] e = "KojiClientError" -> "KojiClientError"
      [] OTHER -> "Exception"

distgit_is_available_always(status) == TRUE

distgit_is_available(status) == status = 200

\* get_github_from_distgit with the unmemoized distgit_github_mappings of the same file,
\* which reads stdout whatever the exit status was.
github_from_distgit_in(data, distgit_name) ==
    IF distgit_name \in DOMAIN data
    THEN Return(Str(LastSegment(data[distgit_name])))
    ELSE Raise("GithubFromDistgitNotFound")

get_github_from_distgit(cache, distgit_name, v, o) ==
    cached(cache, "get_github_from_distgit", <<distgit_name, v>>,
           github_from_distgit_in(dict_of(cmd_gather("name: upstream_public", v, o).out),
                                  distgit_name))

\* what a lookup can raise besides returning, by lookup (the lookups of
\* pipeline_image_names.py and the helpers of pipeline_image_util.py)
Raises(lookup) ==
    CASE lookup = "distgit_to_brew" -> {"DistgitNotFound", "ConnectionError"}
      [] lookup = "get_brew_id" -> {"KojiClientError", "BrewIdNotFound"}
      [] lookup = "get_image_stream_tag" -> {}
      [] lookup = "brew_to_cdn" -> {"KerberosAuthenticationError", "CdnFromBrewNotFound"}
      [] lookup = "get_cdn_repo_id" -> {"KerberosAuthenticationError", "CdnNotFound", "CdnIdNotFound"}
      [] lookup = "get_variant_id" -> {"KerberosAuthenticationError", "CdnNotFound", "VariantIdNotFound"}
      [] lookup = "get_product_id" -> {"KerberosAuthenticationError", "ProductIdNotFound"}
      [] lookup = "cdn_to_comet" -> {"KerberosAuthenticationError", "CdnNotFound", "DeliveryRepoNotFound"}
      \* `raise DeliveryRepoUrlNotFound` constructs the class without its argument: TypeError
      [] lookup = "get_delivery_repo_id" -> {"KerberosAuthenticationError", "TypeError", "DeliveryRepoIDNotFound"}
      [] lookup = "get_cdn_payload" ->
            {"KerberosAuthenticationError", "CdnNotFound", "CdnIdNotFound", "VariantIdNotFound",
             "ProductIdNotFound"}
      [] lookup = "cdn_to_delivery_payload" ->
            {"KerberosAuthenticationError", "CdnNotFound", "DeliveryRepoNotFound",
             "DeliveryRepoUrlNotFound", "DeliveryRepoIDNotFound"}
      \* an empty package list makes brew_packages[0] an IndexError
      [] lookup = "cdn_to_brew" ->
            {"KerberosAuthenticationError", "CdnNotFound", "MultipleCdnToBrewMappings",
             "IndexError", "BrewNotFoundFromCdnApi"}
      [] OTHER -> {}

-----------------------------------------------------------------------------
\* pipeline_from_distgit(so, distgit_repo_name, version), statement by statement.

\* A lookup of the running driver returned: log it, add its lines, go on.
Returned_prepend(lookup, lines, next) ==
    /\ calls' = Append(calls, <<lookup, "ok">>)
    /\ payload' = lines \o payload
    /\ pc' = next
    /\ exc' = exc

Returned(lookup, lines, next) ==
    /\ calls' = Append(calls, <<lookup, "ok">>)
    /\ payload' = payload \o lines
    /\ pc' = next
    /\ exc' = exc

\* A lookup raised e: inside the try block control goes to the except clauses,
\* anywhere else the exception leaves the driver.
Raised(lookup, e, inTry) ==
    /\ calls' = Append(calls, <<lookup, e>>)
    /\ exc' = e
    /\ pc' = IF inTry THEN "pfd_except" ELSE "raised"
    /\ payload' = payload

\* A lookup of the try block that only returns or raises.
TryStep(lookup, lines, next) ==
    /\ \E o \in {"ok"} \cup Raises(lookup) :
          IF o = "ok" THEN Returned(lookup, lines, next) ELSE Raised(lookup, o, TRUE)
    /\ UNCHANGED <<CACHE, ret, called, cmdCount, httpCount, nCalls, poolVars>>
    /\ UNCHANGED <<driver, distgit_repo_name, version, said, monitoring,
                   brew_package_name, cdn_repo_names, cdn_name>>

PfdStart ==
    /\ driver = "pipeline_from_distgit"
    /\ pc = "pfd_start"
    /\ said' = Append(said, FetchingNotice)
    /\ version' = IF version = "" THEN "4.10" ELSE version
    /\ payload' = <<>>
    /\ pc' = "pfd_probe"
    /\ UNCHANGED <<CACHE, ret, called, cmdCount, httpCount, nCalls, poolVars>>
    /\ UNCHANGED <<driver, distgit_repo_name, monitoring, calls, exc,
                   brew_package_name, cdn_repo_names, cdn_name, idx>>

PfdDistgitIsAvailable ==
    /\ pc = "pfd_probe"
    /\ \/ \E status \in {200, 404} :
             /\ calls' = Append(calls, <<"distgit_is_available", IF status = 200 THEN "200" ELSE "404">>)
             /\ IF distgit_is_available(status)
                THEN /\ pc' = "pfd_github"
                     /\ UNCHANGED <<payload, monitoring>>
                ELSE /\ payload' = Append(payload, NoDistgitLine(distgit_repo_name))
                     /\ monitoring' = Append(monitoring, NoDistgitLine(distgit_repo_name))
                     /\ pc' = "pfd_say"
             /\ exc' = exc
       \/ /\ Raised("distgit_is_available", "ConnectionError", FALSE)
          /\ UNCHANGED monitoring
    /\ UNCHANGED <<CACHE, ret, called, cmdCount, httpCount, nCalls, poolVars>>
    /\ UNCHANGED <<driver, distgit_repo_name, version, said,
                   brew_package_name, cdn_repo_names, cdn_name, idx>>

GithubFromDistgitDone(c) ==
    /\ CACHE' = c.cache
    /\ IF c.result.exc = ""
       THEN Returned("get_github_from_distgit",
                     GithubLines(c.result.val.s, distgit_repo_name), "pfd_brew")
       ELSE Raised("get_github_from_distgit", c.result.exc, FALSE)

PfdGetGithubFromDistgit ==
    /\ pc = "pfd_github"
    /\ \E o \in CmdOutcomes :
          GithubFromDistgitDone(get_github_from_distgit(CACHE, distgit_repo_name, version, o))
    /\ UNCHANGED <<ret, called, cmdCount, httpCount, nCalls, poolVars>>
    /\ UNCHANGED <<driver, distgit_repo_name, version, said, monitoring,
                   brew_package_name, cdn_repo_names, cdn_name, idx>>

\* distgit_to_brew of this file decides exactly as the one of pipeline_image_util.py.
DistgitToBrewDone(b, next, inTry) ==
    IF b.exc = ""
    THEN /\ Returned("distgit_to_brew", <<>>, next)
         /\ brew_package_name' = b.val.s
    ELSE /\ Raised("distgit_to_brew", b.exc, inTry)
         /\ UNCHANGED brew_package_name

PfdDistgitToBrew ==
    /\ pc = "pfd_brew"
    /\ \/ \E r \in HttpResponses :
             DistgitToBrewDone(distgit_to_brew(CACHE, distgit_repo_name, version, r).result,
                               "pfd_brew_id", TRUE)
       \/ /\ Raised("distgit_to_brew", "ConnectionError", TRUE)
          /\ UNCHANGED brew_package_name
    /\ UNCHANGED <<CACHE, ret, called, cmdCount, httpCount, nCalls, poolVars>>
    /\ UNCHANGED <<driver, distgit_repo_name, version, said, monitoring,
                   cdn_repo_names, cdn_name, idx>>

PfdGetBrewId ==
    /\ pc = "pfd_brew_id"
    /\ TryStep("get_brew_id", <<BrewLine(brew_package_name)>>, "pfd_tag")
    /\ UNCHANGED idx

TagLines(tag) == IF tag.shape = "str" THEN <<TagLine(tag.s)>> ELSE <<>>

PfdGetImageStreamTag ==
    /\ pc = "pfd_tag"
    /\ \E r \in HttpResponses :
          Returned("get_image_stream_tag",
                   TagLines(get_image_stream_tag(CACHE, distgit_repo_name, version, r).result.val),
                   "pfd_cdn")
    /\ UNCHANGED <<CACHE, ret, called, cmdCount, httpCount, nCalls, poolVars>>
    /\ UNCHANGED <<driver, distgit_repo_name, version, said, monitoring,
                   brew_package_name, cdn_repo_names, cdn_name, idx>>

more_than_one_always(cdns) == Len(cdns) > 0

more_than_one(cdns) == Len(cdns) > 1

\* brew_to_cdn of this file: the names the API lists for the package and variant, as listed.
PfdBrewToCdn ==
    /\ pc = "pfd_cdn"
    /\ \/ \E e \in {"KerberosAuthenticationError"} :
             /\ Raised("brew_to_cdn", e, TRUE)
             /\ UNCHANGED <<cdn_repo_names, idx>>
       \/ \E repos \in SeqsUpTo(CdnRepos, MaxCdn) :
             IF repos = <<>>
             THEN /\ Raised("brew_to_cdn", "CdnFromBrewNotFound", TRUE)
                  /\ UNCHANGED <<cdn_repo_names, idx>>
             ELSE /\ Returned("brew_to_cdn",
                              IF more_than_one(repos) THEN <<MoreThanOneNotice>> ELSE <<>>,
                              "pfd_cdn_id")
                  /\ cdn_repo_names' = repos
                  /\ idx' = 1
    /\ UNCHANGED <<CACHE, ret, called, cmdCount, httpCount, nCalls, poolVars>>
    /\ UNCHANGED <<driver, distgit_repo_name, version, said, monitoring,
                   brew_package_name, cdn_name>>

PfdGetCdnRepoId ==
    /\ pc = "pfd_cdn_id"
    /\ TryStep("get_cdn_repo_id", <<>>, "pfd_variant_id")
    /\ UNCHANGED idx

PfdGetVariantId ==
    /\ pc = "pfd_variant_id"
    /\ TryStep("get_variant_id", <<>>, "pfd_product_id")
    /\ UNCHANGED idx

PfdGetProductId ==
    /\ pc = "pfd_product_id"
    /\ TryStep("get_product_id", <<CdnLine(cdn_repo_names[idx])>>, "pfd_comet")
    /\ UNCHANGED idx

PfdCdnToComet ==
    /\ pc = "pfd_comet"
    /\ TryStep("cdn_to_comet", <<>>, "pfd_delivery_id")
    /\ UNCHANGED idx

\* the last statement of the loop body; the for loop then takes the next repo or ends
PfdGetDeliveryRepoId ==
    /\ pc = "pfd_delivery_id"
    /\ TryStep("get_delivery_repo_id",
               <<DeliveryLine(ExternalName(cdn_repo_names[idx])), Blank>>,
               IF idx < Len(cdn_repo_names) THEN "pfd_cdn_id" ELSE "pfd_say")
    /\ idx' = IF exc' = "" /\ idx < Len(cdn_repo_names) THEN idx + 1 ELSE idx

\* except ArtBotExceptions as e: the reply is the report so far, a newline and e.message
ArtBotExceptionsReply_bare(p, e) == << MessageLine(e) >>

ArtBotExceptionsReply(p, e) == p \o << Blank, MessageLine(e) >>

\* The except clauses (lines 398-413).  The first two return; the last two do not.
PfdExcept ==
    /\ pc = "pfd_except"
    /\ CASE ExceptClause(exc) = "ArtBotExceptions" ->
              /\ payload' = ArtBotExceptionsReply(payload, exc)
              /\ said' = Append(said, payload')
              /\ pc' = "done"
         [] ExceptClause(exc) = "KerberosAuthenticationError" ->
              /\ said' = Append(said, << Line("e.message Contact the ART Team", exc) >>)
              /\ pc' = "done"
              /\ UNCHANGED payload
         [] ExceptClause(exc) = "KojiClientError" ->
              /\ said' = Append(said, << MessageLine(exc) >>)
              /\ pc' = "pfd_say"
              /\ UNCHANGED payload
         [] OTHER ->
              /\ said' = Append(said, << Line("Unknown error. Contact the ART team.", "") >>)
              /\ pc' = "pfd_say"
              /\ UNCHANGED payload
    /\ monitoring' = Append(monitoring, Line("ERROR", exc))
    /\ UNCHANGED <<CACHE, ret, called, cmdCount, httpCount, nCalls, poolVars>>
    /\ UNCHANGED <<driver, distgit_repo_name, version, calls, exc,
                   brew_package_name, cdn_repo_names, cdn_name, idx>>

\* so.say(payload), the last statement (line 420)
PfdSay ==
    /\ pc = "pfd_say"
    /\ said' = Append(said, payload)
    /\ pc' = "done"
    /\ UNCHANGED <<CACHE, ret, called, cmdCount, httpCount, nCalls, poolVars>>
    /\ UNCHANGED <<driver, distgit_repo_name, version, payload, monitoring, calls, exc,
                   brew_package_name, cdn_repo_names, cdn_name, idx>>

-----------------------------------------------------------------------------
\* The helper drivers of pipeline_image_util.py.  They return the report or let the
\* exception of a lookup through.

UtilFrame ==
    /\ UNCHANGED <<ret, called, cmdCount, httpCount, nCalls, poolVars>>
    /\ UNCHANGED <<driver, version, said, monitoring, cdn_name>>

\* a lookup that only returns or raises
UtilStep(lookup, lines, next) ==
    /\ \E o \in {"ok"} \cup Raises(lookup) :
          IF o = "ok" THEN Returned(lookup, lines, next) ELSE Raised(lookup, o, FALSE)
    /\ UtilFrame
    /\ UNCHANGED <<CACHE, distgit_repo_name, brew_package_name, cdn_repo_names>>

GetImageStreamTagStep(from, next) ==
    /\ pc = from
    /\ \E r \in HttpResponses :
          Returned("get_image_stream_tag",
                   TagLines(get_image_stream_tag(CACHE, distgit_repo_name, version, r).result.val),
                   next)
    /\ UtilFrame
    /\ UNCHANGED <<CACHE, distgit_repo_name, brew_package_name, cdn_repo_names, idx>>

RequireBundleBuildDone(b, yes, no) ==
    IF b.exc = ""
    THEN Returned("require_bundle_build", <<>>, IF b.val.b THEN yes ELSE no)
    ELSE Raised("require_bundle_build", b.exc, FALSE)

RequireBundleBuildStep(from, yes, no) ==
    /\ pc = from
    /\ \E r \in HttpResponses :
          RequireBundleBuildDone(require_bundle_build(CACHE, distgit_repo_name, version, r).result,
                                 yes, no)
    /\ UtilFrame
    /\ UNCHANGED <<CACHE, distgit_repo_name, brew_package_name, cdn_repo_names, idx>>

GetBundleOverrideDone(b, next) ==
    IF b.exc = ""
    THEN Returned("get_bundle_override",
                  << BundleComponentLine(IF b.val.shape = "str" THEN b.val.s
                                         ELSE DefaultBundleComponent(brew_package_name)),
                     BundleDistgitLine(BundleDistgit(distgit_repo_name)) >>,
                  next)
    ELSE Raised("get_bundle_override", b.exc, FALSE)

GetBundleOverrideStep(from, next) ==
    /\ pc = from
    /\ \E r \in HttpResponses :
          GetBundleOverrideDone(get_bundle_override(CACHE, distgit_repo_name, version, r).result,
                                next)
    /\ UtilFrame
    /\ UNCHANGED <<CACHE, distgit_repo_name, brew_package_name, cdn_repo_names, idx>>

\* distgit_to_delivery(distgit_repo_name, version, variant)
D2dGetImageStreamTag == GetImageStreamTagStep("d2d_tag", "d2d_brew")

D2dDistgitToBrew ==
    /\ pc = "d2d_brew"
    /\ \E r \in HttpResponses :
          DistgitToBrewDone(distgit_to_brew(CACHE, distgit_repo_name, version, r).result,
                            "d2d_brew_id", FALSE)
    /\ UtilFrame
    /\ UNCHANGED <<CACHE, distgit_repo_name, cdn_repo_names, idx>>

D2dGetBrewId ==
    /\ pc = "d2d_brew_id"
    /\ UtilStep("get_brew_id", <<BrewLine(brew_package_name)>>, "d2d_bundle")
    /\ UNCHANGED idx

D2dRequireBundleBuild == RequireBundleBuildStep("d2d_bundle", "d2d_override", "b2d_cdn")

D2dGetBundleOverride == GetBundleOverrideStep("d2d_override", "b2d_cdn")

\* the candidates as listed, whatever variant they are bound to
bound_to_unfiltered(order, variant_name) == order

\* brew_to_cdn(brew_name, variant_name): the names the API lists for the package,
\* made unique, then only those whose detail document binds them to the variant.
bound_to(order, variant_name) == SelectSeq(order, LAMBDA c : variant_name \in VariantsOf(c))

brew_to_cdn(items, order, variant_name) ==
    IF bound_to(order, variant_name) = <<>>
    THEN Raise("CdnFromBrewNotFound")
    ELSE Return(List(bound_to(order, variant_name)))

BrewToCdnDone(r) ==
    IF r.exc # ""
    THEN /\ Raised("brew_to_cdn", r.exc, FALSE)
         /\ UNCHANGED <<cdn_repo_names, idx>>
    ELSE /\ Returned("brew_to_cdn",
                     IF more_than_one(r.val.l) THEN <<MoreThanOneNotice>> ELSE <<>>,
                     "b2d_cdn_payload")
         /\ cdn_repo_names' = r.val.l
         /\ idx' = 1

\* brew_to_delivery(brew_package_name, variant)
B2dBrewToCdn ==
    /\ pc = "b2d_cdn"
    /\ \/ \E e \in {"KerberosAuthenticationError", "CdnNotFound"} :
             /\ Raised("brew_to_cdn", e, FALSE)
             /\ UNCHANGED <<cdn_repo_names, idx>>
       \/ \E items \in SeqsUpTo(CdnRepos, MaxCdn) : \E order \in Orderings(Range(items)) :
             BrewToCdnDone(brew_to_cdn(items, order, Variant(version)))
    /\ UtilFrame
    /\ UNCHANGED <<CACHE, distgit_repo_name, brew_package_name>>

B2dGetCdnPayload ==
    /\ pc = "b2d_cdn_payload"
    /\ UtilStep("get_cdn_payload", <<CdnLine(cdn_repo_names[idx])>>, "b2d_delivery_payload")
    /\ UNCHANGED idx

B2dCdnToDeliveryPayload ==
    /\ pc = "b2d_delivery_payload"
    /\ UtilStep("cdn_to_delivery_payload",
                <<DeliveryLine(ExternalName(cdn_repo_names[idx])), Blank>>,
                IF idx < Len(cdn_repo_names) THEN "b2d_cdn_payload" ELSE "returned")
    /\ idx' = IF exc' = "" /\ idx < Len(cdn_repo_names) THEN idx + 1 ELSE idx

\* cdn_to_github(cdn_name, version)
C2gCdnToBrew ==
    /\ pc = "c2g_brew"
    /\ \/ \E b \in BrewNames :
             /\ Returned("cdn_to_brew", <<>>, "c2g_brew_id")
             /\ brew_package_name' = b
       \/ \E e \in Raises("cdn_to_brew") :
             /\ Raised("cdn_to_brew", e, FALSE)
             /\ UNCHANGED brew_package_name
    /\ UtilFrame
    /\ UNCHANGED <<CACHE, distgit_repo_name, cdn_repo_names, idx>>

C2gGetBrewId ==
    /\ pc = "c2g_brew_id"
    /\ UtilStep("get_brew_id", <<BrewLine(brew_package_name)>>, "b2g_distgit")
    /\ UNCHANGED idx

\* brew_to_github(brew_name, version).  brew_to_distgit and distgit_to_github both go
\* through CACHE with the key (version,): what the first stores, the second is handed.
\* In Spec no run gets past B2gDistgitToGithub, so the statements after it (lines
\* 220-240, the last three actions below) are never reached.
BrewToDistgitDone(c) ==
    /\ CACHE' = c.cache
    /\ IF c.result.exc = ""
       THEN /\ Returned("brew_to_distgit", <<>>, "b2g_github")
            /\ distgit_repo_name' = c.result.val.s
       ELSE /\ Raised("brew_to_distgit", c.result.exc, FALSE)
            /\ UNCHANGED distgit_repo_name

B2gBrewToDistgit ==
    /\ pc = "b2g_distgit"
    /\ \E o \in CmdOutcomes :
          BrewToDistgitDone(brew_to_distgit(CACHE, brew_package_name, version, o))
    /\ UtilFrame
    /\ UNCHANGED <<brew_package_name, cdn_repo_names, idx>>

DistgitToGithubDone(c) ==
    /\ CACHE' = c.cache
    /\ IF c.result.exc = ""
       THEN Returned("distgit_to_github",
                     GithubLines(c.result.val.s, distgit_repo_name), "b2g_bundle")
       ELSE Raised("distgit_to_github", c.result.exc, FALSE)

B2gDistgitToGithub ==
    /\ pc = "b2g_github"
    /\ \E o \in CmdOutcomes :
          DistgitToGithubDone(distgit_to_github(CACHE, distgit_repo_name, version, o))
    /\ UtilFrame
    /\ UNCHANGED <<distgit_repo_name, brew_package_name, cdn_repo_names, idx>>

B2gRequireBundleBuild == RequireBundleBuildStep("b2g_bundle", "b2g_override", "b2g_tag")

B2gGetBundleOverride == GetBundleOverrideStep("b2g_override", "b2g_tag")

B2gGetImageStreamTag == GetImageStreamTagStep("b2g_tag", "returned")

-----------------------------------------------------------------------------
\* One driver run per behaviour, in a process whose cache is empty or holds what an
\* earlier request left there.

Drivers == {"pipeline_from_distgit", "distgit_to_delivery", "brew_to_delivery",
            "brew_to_github", "cdn_to_github"}

EntryPoint(d) ==
    CASE d = "pipeline_from_distgit" -> "pfd_start"
      [] d = "distgit_to_delivery" -> "d2d_tag"
      [] d = "brew_to_delivery" -> "b2d_cdn"
      [] d = "brew_to_github" -> "b2g_distgit"
      [] OTHER -> "c2g_brew"

\* the caches an earlier call of a memoized table function can have left
TableCaches ==
    {<<>>} \cup
    { (<<v>> :> TableBody(fn, v, o).val) :
        <<fn, v, o>> \in {t \in TableFunctions \X Versions \X CmdOutcomes :
                            TableBody(t[1], t[2], t[3]).exc = ""} }

\* the caches an earlier pipeline_from_distgit can have left
GithubCaches ==
    {<<>>} \cup
    { (<<d, v>> :> get_github_from_distgit(<<>>, d, v, "ok").result.val) :
        <<d, v>> \in {t \in DistgitNames \X Versions :
                        get_github_from_distgit(<<>>, t[1], t[2], "ok").result.exc = ""} }

Init ==
    /\ driver \in Drivers
    /\ pc = EntryPoint(driver)
    /\ distgit_repo_name \in
          IF driver \in {"pipeline_from_distgit", "distgit_to_delivery"} THEN DistgitNames ELSE {""}
    /\ version \in IF driver = "pipeline_from_distgit" THEN {"", "4.11"} ELSE Versions
    /\ brew_package_name \in
          IF driver \in {"brew_to_delivery", "brew_to_github"} THEN BrewNames ELSE {""}
    /\ cdn_name \in IF driver = "cdn_to_github" THEN {"c1"} ELSE {""}
    /\ CACHE \in CASE driver = "pipeline_from_distgit" -> GithubCaches
                   [] driver \in {"brew_to_github", "cdn_to_github"} -> TableCaches
                   [] OTHER -> {<<>>}
    /\ payload = <<>>
    /\ said = <<>>
    /\ monitoring = <<>>
    /\ calls = <<>>
    /\ exc = ""
    /\ cdn_repo_names = <<>>
    /\ idx = 0
    /\ ret = NoCall
    /\ called = [k \in TableFunctions \X Versions |-> {}]
    /\ cmdCount = [k \in TableFunctions \X Versions |-> 0]
    /\ httpCount = 0
    /\ nCalls = 0
    /\ NoPool

Next ==
    \/ PfdStart
    \/ PfdDistgitIsAvailable
    \/ PfdGetGithubFromDistgit
    \/ PfdDistgitToBrew
    \/ PfdGetBrewId
    \/ PfdGetImageStreamTag
    \/ PfdBrewToCdn
    \/ PfdGetCdnRepoId
    \/ PfdGetVariantId
    \/ PfdGetProductId
    \/ PfdCdnToComet
    \/ PfdGetDeliveryRepoId
    \/ PfdExcept
    \/ PfdSay
    \/ D2dGetImageStreamTag
    \/ D2dDistgitToBrew
    \/ D2dGetBrewId
    \/ D2dRequireBundleBuild
    \/ D2dGetBundleOverride
    \/ B2dBrewToCdn
    \/ B2dGetCdnPayload
    \/ B2dCdnToDeliveryPayload
    \/ C2gCdnToBrew
    \/ C2gGetBrewId
    \/ B2gBrewToDistgit
    \/ B2gDistgitToGithub
    \/ B2gRequireBundleBuild
    \/ B2gGetBundleOverride
    \/ B2gGetImageStreamTag

Spec == Init /\ [][Next]_vars

-----------------------------------------------------------------------------
\* Properties of the drivers, stated for Spec.

Pfd == driver = "pipeline_from_distgit"

Last(q) == q[Len(q)]
Names(log) == [i \in 1..Len(log) |-> log[i][1]]
Labels(report) == [i \in 1..Len(report) |-> report[i][1]]
IsPrefix(p, q) == Len(p) <= Len(q) /\ SubSeq(q, 1, Len(p)) = p
IsSuffix(p, q) == Len(p) <= Len(q) /\ SubSeq(q, Len(q) - Len(p) + 1, Len(q)) = p
Count(report, line) == Cardinality({i \in 1..Len(report) : report[i] = line})

\* C1: in pipeline_from_distgit, when a lookup raises a resolution error (one of the
\* ArtBotExceptions) after earlier lookups have succeeded, the handler sends exactly one
\* reply, made of every report line accumulated before the failure (which begin with
\* the GitHub and dist-git lines), a blank line and the error's message, and the
\* invocation ends; the reply is never the error text alone.
C1_PartialReportThenError ==
    [][(Pfd /\ pc = "pfd_except" /\ exc \in ArtBotExceptions)
       => /\ Len(said') = Len(said) + 1
          /\ Last(said') = payload \o << Blank, MessageLine(exc) >>
          /\ Len(payload) >= 3
          /\ SubSeq(Labels(Last(said')), 1, 3) =
                << "Upstream GitHub repository", "Private GitHub repository",
                   "Production dist-git repo" >>
          /\ Last(said') # << MessageLine(exc) >>
          /\ pc' = "done"]_vars

\* The CDN id lookup failed after the Brew stage: the reply holds the GitHub, dist-git
\* and Brew lines and ends with the error's message.
C1_Witness ==
    /\ Pfd /\ pc = "done" /\ exc = "CdnIdNotFound"
    /\ Len(said) = 2
    /\ Len(said[2]) >= 6
    /\ said[2][4] = BrewLine(brew_package_name)
    /\ Last(said[2]) = MessageLine("CdnIdNotFound")

\* C2 (as claimed): an invocation of pipeline_from_distgit in which a lookup failed - the
\* dist-git -> GitHub lookup or any later one, with whatever exception - has sent a reply
\* through say, besides the 'Fetching data' notice, by the time it ends.
C2_EveryFailureGetsAReply ==
    (/\ Pfd /\ pc \in {"done", "raised"} /\ exc # ""
     /\ Last(calls)[1] # "distgit_is_available")
    => Len(said) >= 2

\* C3 (as claimed): an invocation of pipeline_from_distgit whose failed lookup was
\* handled by one of the except clauses has sent exactly one reply after the
\* 'Fetching data' notice when it ends, never two.
C3_ExactlyOneReplyOnFailure ==
    (Pfd /\ pc = "done" /\ exc # "") => Len(said) = 2

\* C4: when the existence probe of the starting dist-git reports that it does not exist,
\* pipeline_from_distgit calls no lookup after the probe and its only reply after the
\* 'Fetching data' notice is the single 'No distgit repo ... exists' message.
C4_NotFoundShortCircuit ==
    (Pfd /\ calls # <<>> /\ calls[1] = <<"distgit_is_available", "404">>)
    => /\ calls = << <<"distgit_is_available", "404">> >>
       /\ exc = ""
       /\ IsPrefix(said, << FetchingNotice, << NoDistgitLine(distgit_repo_name) >> >>)
       /\ pc = "done" => Len(said) = 2

C4_Witness ==
    /\ Pfd /\ pc = "done"
    /\ calls = << <<"distgit_is_available", "404">> >>
    /\ said = << FetchingNotice, << NoDistgitLine(distgit_repo_name) >> >>

\* C5: a driver that has fanned out over the n CDN repos the Brew->CDN lookup gave ends
\* its report with, for n >= 2, the 'more than one' notice and then, for every n, one
\* chain per repo in the order given - the CDN line, that repo's Delivery line, a blank
\* line; the notice occurs once in the report when n >= 2 and not at all when n = 1.
RECURSIVE Chains(_)
Chains(cdns) ==
    IF cdns = <<>> THEN <<>>
    ELSE << CdnLine(Head(cdns)), DeliveryLine(ExternalName(Head(cdns))), Blank >>
         \o Chains(Tail(cdns))

FannedOut ==
    \/ Pfd /\ pc = "done" /\ exc = "" /\ cdn_repo_names # <<>>
    \/ driver \in {"brew_to_delivery", "distgit_to_delivery"} /\ pc = "returned"

C5_OneChainPerCdnRepo ==
    FannedOut
    => /\ cdn_repo_names # <<>>
       /\ IsSuffix((IF Len(cdn_repo_names) >= 2 THEN << MoreThanOneNotice >> ELSE <<>>)
                   \o Chains(cdn_repo_names), payload)
       /\ Count(payload, MoreThanOneNotice) = IF Len(cdn_repo_names) >= 2 THEN 1 ELSE 0
       /\ Pfd => Last(said) = payload

\* Two CDN repos: the notice and two complete chains, sent by pipeline_from_distgit.
C5_Witness ==
    /\ Pfd /\ pc = "done" /\ exc = ""
    /\ cdn_repo_names = << "c1", "c2" >>
    /\ IsSuffix(<< MoreThanOneNotice, CdnLine("c1"), DeliveryLine("openshift4/r1"), Blank,
                   CdnLine("c2"), DeliveryLine("openshift4/r2"), Blank >>, Last(said))

\* C6: the stage order of each driver's lookups, for n CDN repos.
RECURSIVE Repeat(_, _)
Repeat(q, n) == IF n = 0 THEN <<>> ELSE q \o Repeat(q, n - 1)

BrewToDeliveryOrder(n) ==
    << "brew_to_cdn" >> \o Repeat(<< "get_cdn_payload", "cdn_to_delivery_payload" >>, n)

BrewToGithubOrder ==
    << "brew_to_distgit", "distgit_to_github", "require_bundle_build", "get_image_stream_tag" >>

StageOrder(d, n) ==
    CASE d = "pipeline_from_distgit" ->
            << "distgit_is_available", "get_github_from_distgit", "distgit_to_brew",
               "get_brew_id", "get_image_stream_tag", "brew_to_cdn" >>
            \o Repeat(<< "get_cdn_repo_id", "get_variant_id", "get_product_id",
                         "cdn_to_comet", "get_delivery_repo_id" >>, n)
      [] d = "distgit_to_delivery" ->
            << "get_image_stream_tag", "distgit_to_brew", "get_brew_id",
               "require_bundle_build" >> \o BrewToDeliveryOrder(n)
      [] d = "brew_to_delivery" -> BrewToDeliveryOrder(n)
      [] d = "brew_to_github" -> BrewToGithubOrder
      [] OTHER -> << "cdn_to_brew", "get_brew_id" >> \o BrewToGithubOrder

\* The lookups issued so far are the beginning of the driver's stage order (the bundle
\* override, asked only for bundle builds, directly follows the bundle check), and every
\* lookup but the last one issued has succeeded.
LookupsInStageOrder ==
    /\ IsPrefix(SelectSeq(Names(calls), LAMBDA n : n # "get_bundle_override"),
                StageOrder(driver, Len(cdn_repo_names)))
    /\ \A i \in 1..Len(calls) :
          calls[i][1] = "get_bundle_override" => i > 1 /\ calls[i - 1][1] = "require_bundle_build"
    /\ \A i \in 1..(Len(calls) - 1) : calls[i][2] \in {"ok", "200"}

\* the lookups that resolve the identifier a report line shows
Resolver(label) ==
    CASE label = "Upstream GitHub repository" -> {"get_github_from_distgit", "distgit_to_github"}
      [] label = "Production dist-git repo" -> {"brew_to_distgit"}
      [] label = "Production brew builds" -> {"get_brew_id"}
      [] label = "Payload tag" -> {"get_image_stream_tag"}
      [] label = "Bundle Component" -> {"get_bundle_override"}
      [] label = "CDN repo" -> {"brew_to_cdn"}
      [] OTHER -> {"get_delivery_repo_id", "cdn_to_delivery_payload"}

IdLabels ==
    {"Upstream GitHub repository", "Production dist-git repo", "Production brew builds",
     "Payload tag", "Bundle Component", "CDN repo", "Delivery (Comet) repo"}

\* index of the first lookup of the set issued (0 when none), of the first line with the label
FirstCall(lookups) ==
    IF \E i \in 1..Len(calls) : calls[i][1] \in lookups
    THEN CHOOSE i \in 1..Len(calls) :
            /\ calls[i][1] \in lookups
            /\ \A j \in 1..(i - 1) : calls[j][1] \notin lookups
    ELSE 0

FirstLine(label) ==
    IF \E i \in 1..Len(payload) : payload[i][1] = label
    THEN CHOOSE i \in 1..Len(payload) :
            /\ payload[i][1] = label
            /\ \A j \in 1..(i - 1) : payload[j][1] # label
    ELSE 0

\* identifier a, resolved before identifier b, is listed before it
ListedInResolutionOrder(a, b) ==
    (/\ FirstLine(a) > 0 /\ FirstLine(b) > 0
     /\ FirstCall(Resolver(a)) > 0
     /\ FirstCall(Resolver(a)) < FirstCall(Resolver(b)))
    => FirstLine(a) < FirstLine(b)

ThroughDistgit ==
    \/ Pfd /\ pc = "done" /\ exc = "" /\ calls[1] = <<"distgit_is_available", "200">>
    \/ driver \in {"distgit_to_delivery", "brew_to_github", "cdn_to_github"} /\ pc = "returned"

C7_BundleCheckOnEveryDistgitTraversal ==
    ThroughDistgit
    => /\ FirstCall({"require_bundle_build"}) > 0
       /\ FirstCall({"get_bundle_override"}) > 0
             => FirstLine("Bundle Component") > 0 /\ FirstLine("Bundle Distgit") > 0

-----------------------------------------------------------------------------
\* Properties of the table lookups, stated for SpecCache.

\* the dist-git names whose line of the command's output names repo r as upstream, in order
DistgitsOf(r, v) ==
    SelectSeq([i \in 1..Len(Components(v)) |-> Components(v)[i].name],
              LAMBDA d : \E i \in 1..Len(Components(v)) :
                            /\ Components(v)[i].name = d
                            /\ LastSegment(Components(v)[i].upstream) = r)

\* C11 (as claimed): github_to_distgit(r, v) returns the list of every dist-git name whose
\* line names r as its upstream - all k of them when k >= 2 components share r - and
\* raises DistgitFromGithubNotFound only when no line names r.
C11_AllDistgitsOfRepo ==
    ret.fn = "github_to_distgit"
    => /\ ret.exc = "" => ret.val = List(DistgitsOf(ret.args[1], ret.args[2]))
       /\ ret.exc = "DistgitFromGithubNotFound" => DistgitsOf(ret.args[1], ret.args[2]) = <<>>

\* C12 (as claimed): distgit_to_github(d, v) having returned g, the call
\* github_to_distgit(g, v) that follows it in the same process returns a list that
\* contains d.
C12_RoundTrip ==
    [][(/\ ret.fn = "distgit_to_github" /\ ret.exc = "" /\ ret.val.shape = "str"
        /\ nCalls' = nCalls + 1
        /\ ret'.fn = "github_to_distgit"
        /\ ret'.args = << ret.val.s, ret.args[2] >>)
       => (/\ ret'.exc = ""
           /\ ret'.val.shape = "list"
           /\ \E i \in 1..Len(ret'.val.l) : ret'.val.l[i] = ret.args[1])]_vars

\* the component table of version v has a row for brew package b
HasComponent(b, v) == \E i \in 1..Len(Components(v)) : Components(v)[i].component = b

\* C20 (as claimed): brew_to_distgit(b, v) returns the dist-git of b's row when it returns,
\* and raises BrewToDistgitMappingNotFound only when the component table of v has no row
\* for b; it is not raised for a package the table contains.
C20_NotFoundOnlyWhenAbsent ==
    ret.fn = "brew_to_distgit"
    => /\ ret.exc = ""
          => \E i \in 1..Len(Components(ret.args[2])) :
                /\ Components(ret.args[2])[i].component = ret.args[1]
                /\ ret.val = Str(Components(ret.args[2])[i].name)
       /\ ret.exc = "BrewToDistgitMappingNotFound" => ~HasComponent(ret.args[1], ret.args[2])

-----------------------------------------------------------------------------
\* Properties of the Brew -> CDN lookup inside the drivers, stated for Spec.

\* the running driver's Brew -> CDN lookup has returned
BrewToCdnReturned == \E i \in 1..Len(calls) : calls[i] = << "brew_to_cdn", "ok" >>

\* C13 (as claimed): in every driver that performs a Brew -> CDN lookup, every CDN repo
\* the lookup returned has the requested variant in its bound variant list.
C13_EveryReturnedRepoIsBound ==
    BrewToCdnReturned
    => \A i \in 1..Len(cdn_repo_names) : Variant(version) \in VariantsOf(cdn_repo_names[i])

-----------------------------------------------------------------------------
\* The catalog lookups of pipeline_image_util.py called directly, one call per
\* behaviour, each with what the service it asks answers. None of them keeps state
\* between calls. `ret` holds the call: its arguments (the service's answer among them)
\* and its result.

Number(n) == [shape |-> "int", n |-> n]

\* request_with_kerberos raising (401) and get_cdn_repo_details raising (404)
TransportErrors == {"KerberosAuthenticationError", "CdnNotFound"}

VariantNames == {Variant(v) : v \in Versions} \cup {"8Base-RHOSE-4.9"}

ApiRecord(fn, args, result) ==
    /\ nCalls = 0
    /\ nCalls' = 1
    /\ ret' = [fn |-> fn, args |-> args, exc |-> result.exc, val |-> result.val, cmd |-> ""]
    /\ UNCHANGED <<CACHE, called, cmdCount, httpCount>>
    /\ UNCHANGED driverVars
    /\ UNCHANGED poolVars

\* distgit_to_brew(distgit_name, version): r is the answer to the GET of the recipe
ApiDistgitToBrew ==
    \E d \in DistgitNames, v \in Versions, r \in HttpResponses :
        ApiRecord("distgit_to_brew", << d, v, r >>, distgit_to_brew(CACHE, d, v, r).result)

\* The detail document of a CDN repo (GET api/v1/cdn_repos/<name>) as far as the
\* lookups read it: data.id (0: the key is missing), data.attributes.external_name
\* ("": the key is missing), data.relationships.variants (has_variants FALSE: the key
\* is missing).
VariantLists ==
    { <<>>,
      << [name |-> "8Base-RHOSE-4.10", id |-> 410] >>,
      << [name |-> "8Base-RHOSE-4.9", id |-> 409], [name |-> "8Base-RHOSE-4.10", id |-> 410] >> }

CdnDetails ==
    { d \in [id : {0, 7}, external_name : {"", "openshift4/r1", "openshift4/r2"},
             has_variants : BOOLEAN, variants : VariantLists] :
        d.has_variants \/ d.variants = <<>> }

NoDetails == [id |-> 0, external_name |-> "", has_variants |-> FALSE, variants |-> <<>>]

DetailResponses ==
    {[status |-> s, data |-> NoDetails] : s \in {401, 404}}
    \cup {[status |-> 200, data |-> d] : d \in CdnDetails}

\* every answer but 200 taken as not found
get_cdn_repo_details_no_401(response) ==
    IF response.status # 200 THEN Raise("CdnNotFound") ELSE Return(response.data)

\* request_with_kerberos raises on 401, get_cdn_repo_details on 404
get_cdn_repo_details(response) ==
    IF response.status = 401 THEN Raise("KerberosAuthenticationError")
    ELSE IF response.status = 404 THEN Raise("CdnNotFound")
    ELSE Return(response.data)

cdn_to_delivery(response) ==
    IF get_cdn_repo_details(response).exc # "" THEN get_cdn_repo_details(response)
    ELSE IF response.data.external_name = "" THEN Raise("DeliveryRepoNotFound")
    ELSE Return(Str(response.data.external_name))

get_cdn_repo_id(response) ==
    IF get_cdn_repo_details(response).exc # "" THEN get_cdn_repo_details(response)
    ELSE IF response.data.id = 0 THEN Raise("CdnIdNotFound")
    ELSE Return(Number(response.data.id))

\* for data in ...['variants']: if data['name'] == variant_name: return data['id'];
\* a loop that ends without a match leaves the try block and the function returns None
RECURSIVE variants_loop(_, _)
variants_loop(variants, variant_name) ==
    IF variants = <<>> THEN Return(NoValue)
    ELSE IF Head(variants).name = variant_name THEN Return(Number(Head(variants).id))
    ELSE variants_loop(Tail(variants), variant_name)

get_variant_id(response, variant_name) ==
    IF get_cdn_repo_details(response).exc # "" THEN get_cdn_repo_details(response)
    ELSE IF ~response.data.has_variants THEN Raise("VariantIdNotFound")
    ELSE variants_loop(response.data.variants, variant_name)

\* The answer to GET api/v1/variants/<variant_id>; product_id 0: the document has no
\* data.attributes.relationships.product_version.id
ProductResponses ==
    { [status |-> 401, product_id |-> 0], [status |-> 404, product_id |-> 0],
      [status |-> 200, product_id |-> 0], [status |-> 200, product_id |-> 3] }

get_product_id(response) ==
    IF response.status = 401 THEN Raise("KerberosAuthenticationError")
    ELSE IF response.product_id = 0 THEN Raise("ProductIdNotFound")
    ELSE Return(Number(response.product_id))

ApiCdnToDelivery ==
    \E c \in CdnRepos, r \in DetailResponses :
        ApiRecord("cdn_to_delivery", << c, r >>, cdn_to_delivery(r))

ApiGetCdnRepoId ==
    \E c \in CdnRepos, r \in DetailResponses :
        ApiRecord("get_cdn_repo_id", << c, r >>, get_cdn_repo_id(r))

ApiGetVariantId ==
    \E c \in CdnRepos, variant_name \in VariantNames, r \in DetailResponses :
        ApiRecord("get_variant_id", << c, variant_name, r >>, get_variant_id(r, variant_name))

ApiGetProductId ==
    \E variant_id \in {409, 410}, r \in ProductResponses :
        ApiRecord("get_product_id", << variant_id, r >>, get_product_id(r))

\* The answer to GET .../repository/<delivery_repo>/images of the container catalog:
\* packages are the data[i]['brew']['package'] of the images it lists.
ImageResponses ==
    {[status |-> s, packages |-> <<>>] : s \in {401, 404}}
    \cup {[status |-> 200, packages |-> l] : l \in SeqsUpTo(BrewNames, 2)}

\* result = list(set(result)); more than one raises; result.pop() of an empty list is
\* an IndexError
brew_from_delivery(response) ==
    IF response.status = 401 THEN Raise("KerberosAuthenticationError")
    ELSE IF response.status = 404 THEN Raise("BrewFromDeliveryNotFound")
    ELSE IF Cardinality(Range(response.packages)) > 1 THEN Raise("MultipleBrewFromDelivery")
    ELSE IF Range(response.packages) = {} THEN Raise("IndexError")
    ELSE Return(Str(CHOOSE b \in Range(response.packages) : TRUE))

ApiBrewFromDelivery ==
    \E delivery_repo \in {"openshift4/r1", "openshift4/r2"}, r \in ImageResponses :
        ApiRecord("brew_from_delivery", << delivery_repo, r >>, brew_from_delivery(r))

\* the comparison that never fails
delivery_matches_always(delivery, delivery_repo_name) == TRUE

\* if delivery == delivery_repo_name
delivery_matches(delivery, delivery_repo_name) == delivery = delivery_repo_name

\* for cdn_repo_name in cdn_repo_names (names): the first candidate whose delivery repo is the
\* requested one; cdn_to_delivery raising ends the loop with its exception.
\* details[c] is the answer to the GET of candidate c's detail document.
RECURSIVE cdn_delivery_loop(_, _, _)
cdn_delivery_loop(names, details, delivery_repo_name) ==
    IF names = <<>> THEN Raise("BrewToCdnWithDeliveryNotFound")
    ELSE IF cdn_to_delivery(details[Head(names)]).exc # ""
    THEN cdn_to_delivery(details[Head(names)])
    ELSE IF delivery_matches(cdn_to_delivery(details[Head(names)]).val.s,
                             delivery_repo_name)
    THEN Return(Str(Head(names)))
    ELSE cdn_delivery_loop(Tail(names), details, delivery_repo_name)

\* brew_to_cdn_delivery(brew_name, variant, delivery_repo_name); cdns is what
\* brew_to_cdn(brew_name, variant) gave
brew_to_cdn_delivery(cdns, details, delivery_repo_name) ==
    IF cdns.exc # "" THEN cdns
    ELSE cdn_delivery_loop(cdns.val.l, details, delivery_repo_name)

\* the detail documents of repos that have an id and a variant list (cdn_to_delivery
\* reads neither), with or without an external_name
DeliveryResponses ==
    { r \in DetailResponses : r.status = 200 => (r.data.id = 7 /\ Len(r.data.variants) = 1) }

ApiBrewToCdnDelivery ==
    \E items \in SeqsUpTo(CdnRepos, MaxCdn), variant \in VariantNames :
      \E order \in Orderings(Range(items)), details \in [CdnRepos -> DeliveryResponses],
         delivery_repo_name \in {"openshift4/r1", "openshift4/r2"} :
          ApiRecord("brew_to_cdn_delivery",
                    << brew_to_cdn(items, order, variant), details, delivery_repo_name >>,
                    brew_to_cdn_delivery(brew_to_cdn(items, order, variant), details,
                                         delivery_repo_name))

\* What Brew does with the two remote calls get_brew_id makes.
\*   session: koji_client_session()'s hello() - "ok" or "unreachable"
\*   answer:  getPackageID(brew_name, strict=True) - "id" (the package is known),
\*            "unknown" (no package of that name: GenericError) or "unreachable" (the
\*            connection fails during the call)
KojiSessions == {"ok", "unreachable"}
KojiAnswers == {"id", "unknown", "unreachable"}

\* any exception of koji_client_session becomes KojiClientError, any exception of
\* getPackageID becomes BrewIdNotFound
get_brew_id(session, answer) ==
    IF session # "ok" THEN Raise("KojiClientError")
    ELSE IF answer # "id" THEN Raise("BrewIdNotFound")
    ELSE Return(Number(77))

\* except exceptions.BrewIdNotFound: return False
brew_is_available(session, answer) ==
    IF get_brew_id(session, answer).exc = "" THEN Return([shape |-> "bool", b |-> TRUE])
    ELSE IF get_brew_id(session, answer).exc = "BrewIdNotFound"
    THEN Return([shape |-> "bool", b |-> FALSE])
    ELSE get_brew_id(session, answer)

ApiGetBrewId ==
    \E b \in BrewNames, session \in KojiSessions, answer \in KojiAnswers :
        ApiRecord("get_brew_id", << b, session, answer >>, get_brew_id(session, answer))

ApiBrewIsAvailable ==
    \E b \in BrewNames, session \in KojiSessions, answer \in KojiAnswers :
        ApiRecord("brew_is_available", << b, session, answer >>,
                  brew_is_available(session, answer))

\* The answer to GET v1/repositories?filter=repository==<name> of the container
\* catalog; repo_id "": the document has no data[0]['_id']
RepoResponses ==
    { [status |-> 401, repo_id |-> ""], [status |-> 404, repo_id |-> ""],
      [status |-> 200, repo_id |-> ""], [status |-> 200, repo_id |-> "id1"] }

get_delivery_repo_id(response) ==
    IF response.status = 401 THEN Raise("KerberosAuthenticationError")
    ELSE IF response.status = 404 THEN Raise("DeliveryRepoUrlNotFound")
    ELSE IF response.repo_id = "" THEN Raise("DeliveryRepoIDNotFound")
    ELSE Return(Str(response.repo_id))

\* except exceptions.CdnNotFound: return False
cdn_is_available(response) ==
    IF get_cdn_repo_details(response).exc = "" THEN Return([shape |-> "bool", b |-> TRUE])
    ELSE IF get_cdn_repo_details(response).exc = "CdnNotFound"
    THEN Return([shape |-> "bool", b |-> FALSE])
    ELSE get_cdn_repo_details(response)

\* except exceptions.DeliveryRepoIDNotFound: return False
delivery_repo_is_available(response) ==
    IF get_delivery_repo_id(response).exc = "" THEN Return([shape |-> "bool", b |-> TRUE])
    ELSE IF get_delivery_repo_id(response).exc = "DeliveryRepoIDNotFound"
    THEN Return([shape |-> "bool", b |-> FALSE])
    ELSE get_delivery_repo_id(response)

ApiGetDeliveryRepoId ==
    \E name \in {"openshift4/r1", "openshift4/r2"}, r \in RepoResponses :
        ApiRecord("get_delivery_repo_id", << name, r >>, get_delivery_repo_id(r))

ApiCdnIsAvailable ==
    \E c \in CdnRepos, r \in DetailResponses :
        ApiRecord("cdn_is_available", << c, r >>, cdn_is_available(r))

ApiDeliveryRepoIsAvailable ==
    \E name \in {"openshift4/r1", "openshift4/r2"}, r \in RepoResponses :
        ApiRecord("delivery_repo_is_available", << name, r >>, delivery_repo_is_available(r))

\* brew_to_cdn(brew_name, variant_name): items are the repo names of the package tags
\* the API lists, order the order list(set(repos)) comes out in
ApiBrewToCdn ==
    \/ \E items \in SeqsUpTo(CdnRepos, MaxCdn), variant_name \in VariantNames :
          \E order \in Orderings(Range(items)) :
             ApiRecord("brew_to_cdn", << items, variant_name >>,
                       brew_to_cdn(items, order, variant_name))
    \* a request of the call (the listing, or a candidate's detail document) is
    \* answered 401, or a candidate's detail document 404
    \/ \E items \in SeqsUpTo(CdnRepos, MaxCdn), variant_name \in VariantNames :
          \E status \in {401, 404} :
             ApiRecord("brew_to_cdn", << items, variant_name, status >>,
                       get_cdn_repo_details([status |-> status, data |-> NoDetails]))

\* request_with_kerberos(url) under @util.refresh_krb_auth: do_kinit(), then one GET.
\* answers are the statuses the service would give to successive requests; the result
\* is that of the one request made, http the number of requests made.
request_with_kerberos(answers) ==
    [result |-> IF Head(answers) = 401 THEN Raise("KerberosAuthenticationError")
                ELSE Return(Number(Head(answers))),
     http |-> 1]

\* one call of request_with_kerberos, the requests it made counted in httpCount
ApiRequestWithKerberos ==
    \E answers \in {401, 200, 404} \X {401, 200} :
        /\ nCalls = 0
        /\ nCalls' = 1
        /\ ret' = [fn |-> "request_with_kerberos", args |-> << answers >>,
                   exc |-> request_with_kerberos(answers).result.exc,
                   val |-> request_with_kerberos(answers).result.val, cmd |-> ""]
        /\ httpCount' = httpCount + request_with_kerberos(answers).http
        /\ UNCHANGED <<CACHE, called, cmdCount>>
        /\ UNCHANGED driverVars
        /\ UNCHANGED poolVars
    /\ UNCHANGED poolVars

\* Command dispatch (regex_mapping.py).  A command text is given by the parts the
\* patterns below tell apart: whether it opens with a greeting word, its wording, and
\* the version it ends with ("": no ` in <version>` suffix).
CommandWordings ==
    {"help", "what is the brew-component for dist-git ironic",
     "image pipeline for distgit ironic", "image pipeline for package ironic-container",
     "image pipeline for ironic"}

CommandVersions == {"", "4.10", "4.10.1"}

CommandTexts == [greeting : BOOLEAN, wording : CommandWordings, version : CommandVersions]

\* (?P<major>\d)\.(?P<minor>\d+) and \d+.\d+, each followed by the end of the text
major_minor(v) == v = "4.10"

\* the entries of regex_maps that the wordings above can match, in list order
regex_maps ==
    << "greet_user", "show_help", "translate_names", "pipeline_from_distgit", "pipeline_from_brew" >>

\* re.match(r["regex"], plain_text, r["flag"])
re_match(r, text) ==
    CASE r = "greet_user" -> text.greeting
      [] r = "show_help" -> ~text.greeting /\ text.wording = "help" /\ text.version = ""
      [] r = "translate_names" ->
            /\ ~text.greeting
            /\ text.wording = "what is the brew-component for dist-git ironic"
            /\ (text.version = "" \/ major_minor(text.version))
      [] r = "pipeline_from_distgit" ->
            /\ text.wording = "image pipeline for distgit ironic"
            /\ (text.version = "" \/ major_minor(text.version))
      [] r = "pipeline_from_brew" ->
            /\ text.wording = "image pipeline for package ironic-container"
            /\ (text.version = "" \/ major_minor(text.version))
      [] OTHER -> FALSE

\* match_and_execute: the functions it calls, from entry i of regex_maps on
RECURSIVE match_and_execute(_, _)
match_and_execute(i, text) ==
    IF i > Len(regex_maps) THEN <<>>
    ELSE IF re_match(regex_maps[i], text) THEN << regex_maps[i] >>
    ELSE match_and_execute(i + 1, text)

\* handle_unmatched_command: recommend_command always returns a sentence, which is said
handle_unmatched_command(text) == << "I couldn't understand that." >>

\* map_command_to_regex: the handlers it invokes and what it sends through so.say itself
map_command_to_regex(text) ==
    Return([shape |-> "dispatch",
            invoked |-> match_and_execute(1, text),
            said |-> IF match_and_execute(1, text) = <<>>
                     THEN handle_unmatched_command(text) ELSE <<>>])

ApiMapCommandToRegex ==
    \E text \in CommandTexts :
        ApiRecord("map_command_to_regex", << text >>, map_command_to_regex(text))

NextApi ==
    \/ ApiBrewToCdn
    \/ ApiDistgitToBrew
    \/ ApiCdnToDelivery
    \/ ApiGetCdnRepoId
    \/ ApiGetVariantId
    \/ ApiGetProductId
    \/ ApiBrewFromDelivery
    \/ ApiBrewToCdnDelivery
    \/ ApiGetBrewId
    \/ ApiBrewIsAvailable
    \/ ApiGetDeliveryRepoId
    \/ ApiCdnIsAvailable
    \/ ApiDeliveryRepoIsAvailable
    \/ ApiRequestWithKerberos
    \/ ApiMapCommandToRegex

SpecApi == InitCache /\ [][NextApi]_vars

-----------------------------------------------------------------------------
\* Properties of the catalog lookups, stated for SpecApi.

\* the distinct candidates of a listing that are bound to the variant
BoundCandidates(items, variant_name) == {c \in Range(items) : variant_name \in VariantsOf(c)}

C15_ComponentDefaultOrNotFound ==
    ret.fn = "distgit_to_brew"
    => /\ (ret.exc = "DistgitNotFound") <=> (ret.args[3].status # 200)
       /\ ret.args[3].status = 200
          => /\ ret.exc = ""
             /\ ret.val = Str(IF ret.args[3].doc.component # ""
                              THEN ret.args[3].doc.component
                              ELSE DefaultBrewName(ret.args[1]))

\* the recipe exists and declares no component: the default name
C15_Witness ==
    /\ ret.fn = "distgit_to_brew"
    /\ ret.args[1] = "d1"
    /\ ret.args[3].status = 200
    /\ ret.args[3].doc.component = ""
    /\ ret.val = Str("d1-container")

Projections == {"cdn_to_delivery", "get_cdn_repo_id", "get_variant_id", "get_product_id"}

\* C16 (as claimed): cdn_to_delivery, get_cdn_repo_id, get_variant_id and get_product_id
\* each return their field or raise their typed error; get_variant_id raises
\* VariantIdNotFound when the repo's document has no variant of the requested name; none
\* of them returns a null value.
C16_FieldOrTypedError ==
    /\ (ret.fn \in Projections /\ ret.exc = "") => ret.val.shape # "none"
    /\ (/\ ret.fn = "get_variant_id"
        /\ ret.args[3].status = 200
        /\ \A i \in 1..Len(ret.args[3].data.variants) :
              ret.args[3].data.variants[i].name # ret.args[2])
       => ret.exc = "VariantIdNotFound"

\* C17 (as claimed): brew_from_delivery(r) returns the package when the images the
\* catalog lists for r name exactly one distinct package, raises MultipleBrewFromDelivery
\* when they name more than one, and raises BrewFromDeliveryNotFound when they name none:
\* both when the catalog answers not-found and when it answers with an empty image list.
C17_OneManyOrNone ==
    (ret.fn = "brew_from_delivery" /\ ret.args[2].status # 401)
    => /\ Cardinality(Range(ret.args[2].packages)) = 1
          => (ret.exc = "" /\ ret.val.shape = "str" /\ ret.val.s \in Range(ret.args[2].packages))
       /\ Cardinality(Range(ret.args[2].packages)) > 1 => ret.exc = "MultipleBrewFromDelivery"
       /\ Range(ret.args[2].packages) = {} => ret.exc = "BrewFromDeliveryNotFound"

\* candidate c's delivery repo, as its detail document gives it, is r
MapsTo(details, c, r) == cdn_to_delivery(details[c]) = Return(Str(r))

\* brew_to_cdn_delivery was called and its brew_to_cdn returned candidates
CandidatesListed == ret.fn = "brew_to_cdn_delivery" /\ ret.args[1].exc = ""

\* C18 (as claimed): brew_to_cdn_delivery(p, V, r) returns a candidate c of
\* brew_to_cdn(p, V) with cdn_to_delivery(c) = r whenever there is one, and raises
\* BrewToCdnWithDeliveryNotFound when no candidate maps to r.
C18_FindsTheCandidate ==
    CandidatesListed
    => /\ (\E i \in 1..Len(ret.args[1].val.l) :
              MapsTo(ret.args[2], ret.args[1].val.l[i], ret.args[3]))
          => /\ ret.exc = ""
             /\ ret.val.shape = "str"
             /\ ret.val.s \in Range(ret.args[1].val.l)
             /\ MapsTo(ret.args[2], ret.val.s, ret.args[3])
       /\ (\A i \in 1..Len(ret.args[1].val.l) :
              ~MapsTo(ret.args[2], ret.args[1].val.l[i], ret.args[3]))
          => ret.exc = "BrewToCdnWithDeliveryNotFound"

\* C18 (amended): the candidates are tried in the order brew_to_cdn lists them and a
\* candidate whose cdn_to_delivery raises ends the search with that exception. So the
\* call returns the first candidate that maps to r when cdn_to_delivery answers for every
\* candidate listed before it, raises BrewToCdnWithDeliveryNotFound when cdn_to_delivery
\* answers for every candidate and none maps to r, never returns a candidate that does
\* not map to r, and otherwise ends with the exception of the first candidate that fails.
C18_FindsTheCandidateIfEarlierOnesAnswer ==
    CandidatesListed
    => /\ \A i \in 1..Len(ret.args[1].val.l) :
             (/\ MapsTo(ret.args[2], ret.args[1].val.l[i], ret.args[3])
              /\ \A j \in 1..(i - 1) :
                    /\ cdn_to_delivery(ret.args[2][ret.args[1].val.l[j]]).exc = ""
                    /\ ~MapsTo(ret.args[2], ret.args[1].val.l[j], ret.args[3]))
             => (ret.exc = "" /\ ret.val = Str(ret.args[1].val.l[i]))
       /\ (\A i \in 1..Len(ret.args[1].val.l) :
              /\ cdn_to_delivery(ret.args[2][ret.args[1].val.l[i]]).exc = ""
              /\ ~MapsTo(ret.args[2], ret.args[1].val.l[i], ret.args[3]))
          => ret.exc = "BrewToCdnWithDeliveryNotFound"
       /\ ret.exc = ""
          => /\ ret.val.shape = "str"
             /\ ret.val.s \in Range(ret.args[1].val.l)
             /\ MapsTo(ret.args[2], ret.val.s, ret.args[3])
       /\ ret.exc \notin {"", "BrewToCdnWithDeliveryNotFound"}
          => \E i \in 1..Len(ret.args[1].val.l) :
                /\ cdn_to_delivery(ret.args[2][ret.args[1].val.l[i]]).exc = ret.exc
                /\ \A j \in 1..(i - 1) :
                      /\ cdn_to_delivery(ret.args[2][ret.args[1].val.l[j]]).exc = ""
                      /\ ~MapsTo(ret.args[2], ret.args[1].val.l[j], ret.args[3])

\* two candidates, the second one maps to the requested delivery repo and is returned
C18_Witness ==
    /\ CandidatesListed
    /\ Len(ret.args[1].val.l) = 2
    /\ ~MapsTo(ret.args[2], ret.args[1].val.l[1], ret.args[3])
    /\ MapsTo(ret.args[2], ret.args[1].val.l[2], ret.args[3])
    /\ ret.val = Str(ret.args[1].val.l[2])

\* C19 (as claimed): get_brew_id returns the id of a known package, raises
\* KojiClientError on any failure to reach Brew and raises BrewIdNotFound only when the
\* package name is unknown; brew_is_available answers False only for BrewIdNotFound, that
\* is only for an unknown package, and lets KojiClientError propagate.
C19_ConnectivityIsNotNotFound ==
    /\ ret.fn = "get_brew_id"
       => /\ (ret.args[2] = "ok" /\ ret.args[3] = "id") => (ret.exc = "" /\ ret.val.shape = "int")
          /\ (ret.args[2] = "unreachable" \/ ret.args[3] = "unreachable")
             => ret.exc = "KojiClientError"
          /\ ret.exc = "BrewIdNotFound" => ret.args[3] = "unknown"
    /\ ret.fn = "brew_is_available"
       => /\ (ret.exc = "" /\ ret.val = [shape |-> "bool", b |-> FALSE])
             => (ret.args[2] = "ok" /\ ret.args[3] = "unknown")
          /\ ret.args[2] = "unreachable" => ret.exc = "KojiClientError"

-----------------------------------------------------------------------------
\* Properties of the table fetches and of what they leave in the cache, stated for
\* SpecCache.

\* C21 (as claimed): a fetch of a version-scoped table classifies what the external
\* command answered: non-zero exit with the credential message gives
\* KerberosAuthenticationError, non-zero exit for another reason gives an error that is
\* neither KerberosAuthenticationError nor NullDataReturned, exit 0 with no output gives
\* NullDataReturned.
C21_CommandOutcomeClassified ==
    (ret.fn \in TableFunctions /\ ret.cmd # "")
    => /\ ret.cmd = "gssapi" => ret.exc = "KerberosAuthenticationError"
       /\ ret.cmd = "fail" => ret.exc \notin {"", "KerberosAuthenticationError", "NullDataReturned"}
       /\ ret.cmd = "empty" => ret.exc = "NullDataReturned"

\* C26 (as claimed): a call whose external command failed (non-zero exit, with or
\* without the credential message) leaves the cache as it was.
C26_FailedFetchNotCached ==
    [][(nCalls' = nCalls + 1 /\ ret'.cmd \in {"fail", "gssapi"}) => CACHE' = CACHE]_vars

-----------------------------------------------------------------------------
\* Properties of the ticket-authenticated lookups, stated for SpecApi.

\* the lookups whose recorded call holds the answer of the service as its second argument
AnswerSecond ==
    {"cdn_to_delivery", "get_cdn_repo_id", "get_product_id", "get_delivery_repo_id",
     "brew_from_delivery", "cdn_is_available", "delivery_repo_is_available"}

\* the recorded call is one of a ticket-authenticated lookup that was answered 401
Answered401 ==
    \/ ret.fn \in AnswerSecond /\ ret.args[2].status = 401
    \/ ret.fn = "get_variant_id" /\ ret.args[3].status = 401
    \/ ret.fn = "brew_to_cdn" /\ Len(ret.args) = 3 /\ ret.args[3] = 401

\* C22: a ticket-authenticated lookup that is answered 401 raises
\* KerberosAuthenticationError; the 401 never becomes a not-found error, a False
\* availability result or a returned value.
C22_UnauthorizedAlwaysRaises ==
    Answered401 => ret.exc = "KerberosAuthenticationError"

\* an availability probe answered 401 raises instead of answering False
C22_Witness ==
    /\ ret.fn = "cdn_is_available"
    /\ ret.args[2].status = 401
    /\ ret.exc = "KerberosAuthenticationError"

\* C23 (as claimed): an authenticated request that is answered 401 is made again, once,
\* after the credential refresh: two requests are made, the second answer decides the
\* outcome, and KerberosAuthenticationError is raised only when the retry is answered
\* 401 too.
C23_RetriedExactlyOnce ==
    (ret.fn = "request_with_kerberos" /\ ret.args[1][1] = 401)
    => /\ httpCount = 2
       /\ (ret.exc = "KerberosAuthenticationError") <=> (ret.args[1][2] = 401)

-----------------------------------------------------------------------------
\* Concurrent calls of one memoized table function.  art-bot.py runs respond() for each
\* message on a worker of a thread pool; cachetools.cached(CACHE, lock=LOCK) holds the
\* lock while it looks the key up and while it stores the value, and runs the function
\* without it.  Each worker w has its position pc, its call (fn, version), what the
\* command answers to it (o), the value its run returned (val), what the call gave it
\* (got) and the exception it ended with (exc).

Workers == 1..MaxWorkers

InitRace ==
    /\ CACHE = <<>>
    /\ ret = NoCall
    /\ called = [k \in TableFunctions \X Versions |-> {}]
    /\ cmdCount = [k \in TableFunctions \X Versions |-> 0]
    /\ httpCount = 0
    /\ nCalls = 0
    /\ NoDriver
    /\ LOCK = 0
    /\ job = <<>>
    /\ active_slack_objects = {}
    /\ \E fn \in TableFunctions, v \in Versions :
          workers \in [Workers -> [pc : {"call"}, fn : {fn}, version : {v}, o : CmdOutcomes,
                                   val : {NoValue}, got : {NoValue}, exc : {""}]]

RaceFrame ==
    /\ UNCHANGED <<ret, called, httpCount, nCalls, job, active_slack_objects>>
    /\ UNCHANGED driverVars

\* the stored value is kept
setdefault_nothing(cache, k, v) == cache

\* cache.setdefault(k, v): in case of a race the item already in the cache is kept
setdefault(cache, k, v) == IF k \in DOMAIN cache THEN cache ELSE (k :> v) @@ cache

\* cache[k] = v of the releases that store unconditionally
setitem(cache, k, v) == (k :> v) @@ [j \in DOMAIN cache \ {k} |-> cache[j]]

\* `with lock:` entered, before the lookup (pc "call") and before the store ("ran")
RaceAcquire(w) ==
    /\ workers[w].pc \in {"call", "ran"}
    /\ LOCK = 0
    /\ LOCK' = w
    /\ workers' = [workers EXCEPT ![w].pc = IF @ = "call" THEN "lookup" ELSE "store"]
    /\ UNCHANGED <<CACHE, cmdCount>>
    /\ RaceFrame

\* return cache[k] / except KeyError: pass; the lock is released either way
RaceLookup(w) ==
    /\ workers[w].pc = "lookup"
    /\ LOCK = w
    /\ LOCK' = 0
    /\ workers' = IF hashkey(workers[w].fn, << workers[w].version >>) \in DOMAIN CACHE
                  THEN [workers EXCEPT ![w].pc = "done",
                                       ![w].got = CACHE[hashkey(workers[w].fn, << workers[w].version >>)]]
                  ELSE [workers EXCEPT ![w].pc = "miss"]
    /\ UNCHANGED <<CACHE, cmdCount>>
    /\ RaceFrame

\* v = func(*args, **kwargs), outside the lock
RaceRun(w) ==
    /\ workers[w].pc = "miss"
    /\ workers' = IF TableBody(workers[w].fn, workers[w].version, workers[w].o).exc # ""
                  THEN [workers EXCEPT ![w].pc = "done",
                                       ![w].exc = TableBody(workers[w].fn, workers[w].version,
                                                            workers[w].o).exc]
                  ELSE [workers EXCEPT ![w].pc = "ran",
                                       ![w].val = TableBody(workers[w].fn, workers[w].version,
                                                            workers[w].o).val]
    /\ cmdCount' = [cmdCount EXCEPT ![<< workers[w].fn, workers[w].version >>] = @ + 1]
    /\ UNCHANGED <<CACHE, LOCK>>
    /\ RaceFrame

\* return cache.setdefault(k, v)
RaceSetdefault(w) ==
    /\ workers[w].pc = "store"
    /\ LOCK = w
    /\ LOCK' = 0
    /\ CACHE' = setdefault(CACHE, hashkey(workers[w].fn, << workers[w].version >>), workers[w].val)
    /\ workers' = [workers EXCEPT ![w].pc = "done",
                                  ![w].got = IF hashkey(workers[w].fn, << workers[w].version >>)
                                                   \in DOMAIN CACHE
                                                THEN CACHE[hashkey(workers[w].fn, << workers[w].version >>)]
                                                ELSE workers[w].val]
    /\ UNCHANGED cmdCount
    /\ RaceFrame

\* cache[k] = v; return v
RaceSetitem(w) ==
    /\ workers[w].pc = "store"
    /\ LOCK = w
    /\ LOCK' = 0
    /\ CACHE' = setitem(CACHE, hashkey(workers[w].fn, << workers[w].version >>), workers[w].val)
    /\ workers' = [workers EXCEPT ![w].pc = "done", ![w].got = workers[w].val]
    /\ UNCHANGED cmdCount
    /\ RaceFrame

NextRace ==
    \E w \in Workers :
        \/ RaceAcquire(w)
        \/ RaceLookup(w)
        \/ RaceRun(w)
        \/ RaceSetdefault(w)
        \/ RaceSetitem(w)

SpecRace == InitRace /\ [][NextRace]_vars

\* the values the runs of the command give to the workers of this behaviour
ValuesOfRuns ==
    { TableBody(workers[w].fn, workers[w].version, workers[w].o).val :
        w \in {u \in Workers : TableBody(workers[u].fn, workers[u].version, workers[u].o).exc = ""} }

RaceKey == hashkey(workers[1].fn, << workers[1].version >>)

\* C24: whatever the interleaving of the workers that call one table function for one
\* version, a worker that returns has received a complete value that a run of the command
\* gave for that version (the table when every run gave the table), the cache holds at
\* most the one entry of that key and holds it once some worker has stored, a stored
\* entry is a complete value, and while a worker is not finished some worker can step.
C24_ConcurrentMissesAreSafe ==
    /\ \A w \in Workers :
          (workers[w].pc = "done" /\ workers[w].exc = "")
          => /\ workers[w].got \in ValuesOfRuns
             /\ (\A u \in Workers : workers[u].o = "ok")
                => workers[w].got = TableBody(workers[w].fn, workers[w].version, "ok").val
    /\ DOMAIN CACHE \subseteq {RaceKey}
    /\ (\E w \in Workers : workers[w].pc = "done" /\ workers[w].exc = "")
       => DOMAIN CACHE = {RaceKey}
    /\ \A k \in DOMAIN CACHE : CACHE[k] \in ValuesOfRuns
    /\ (\E w \in Workers : workers[w].pc # "done")
       => \/ LOCK = 0 /\ \E w \in Workers : workers[w].pc \in {"call", "ran", "miss"}
          \/ LOCK \in Workers /\ workers[LOCK].pc \in {"lookup", "store"}

\* every worker missed the cache, ran the command, and all of them returned the table
C24_Witness ==
    /\ \A w \in Workers :
          /\ workers[w].pc = "done"
          /\ workers[w].got = TableBody(workers[w].fn, workers[w].version, "ok").val
    /\ cmdCount[<< workers[1].fn, workers[1].version >>] = MaxWorkers
    /\ DOMAIN CACHE = {RaceKey}

\* the entries of regex_maps whose pattern the text matches
Matching(text) == {i \in 1..Len(regex_maps) : re_match(regex_maps[i], text)}

\* C25: map_command_to_regex invokes exactly the handler of the first pattern the text
\* matches, once; for a text that matches no pattern it invokes no handler and sends
\* nothing through say.
C25_OneHandlerOrSilence ==
    ret.fn = "map_command_to_regex"
    => /\ Matching(ret.args[1]) # {}
          => \E i \in Matching(ret.args[1]) :
                /\ \A j \in Matching(ret.args[1]) : i <= j
                /\ ret.val.invoked = << regex_maps[i] >>
       /\ Matching(ret.args[1]) = {}
          => ret.val.invoked = <<>> /\ ret.val.said = <<>>

-----------------------------------------------------------------------------
\* Long-running requests: the polling loops of prow.py, nightly_color.py, buildinfo.py
\* and taskinfo.py.  One request runs per behaviour.  job holds the locals of its
\* handler: the handler (fn), its position (request: not entered, loop: in the polling
\* loop, returned, raised: left by an exception), the clock in elapsed sleeps (rounds),
\* paths, fail_count and max_attempts of first_prow_job_succeeds, the messages sent
\* through so.say (msgs), and as history the number of state fetches made (fetches),
\* the number of polling rounds in a row in which every fetch failed (all_failed), what
\* the last build or task lookup gave (last) and whether SIGTERM was handled (term).  The request's output object is "so".

PollFunctions ==
    {"prow_job_status", "first_prow_job_succeeds", "nightly_color_status",
     "alert_on_build_complete", "alert_on_task_complete"}

InitPoll ==
    /\ CACHE = <<>>
    /\ ret = NoCall
    /\ called = [k \in TableFunctions \X Versions |-> {}]
    /\ cmdCount = [k \in TableFunctions \X Versions |-> 0]
    /\ httpCount = 0
    /\ nCalls = 0
    /\ NoDriver
    /\ workers = <<>>
    /\ LOCK = 0
    /\ active_slack_objects = {}
    /\ \E fn \in PollFunctions :
          job = [fn |-> fn, pc |-> "request", rounds |-> 0, paths |-> <<>>, fail_count |-> 0,
                 max_attempts |-> 0, msgs |-> <<>>, fetches |-> 0, all_failed |-> 0,
                 last |-> "", term |-> FALSE]

PollFrame ==
    /\ UNCHANGED <<CACHE, ret, called, cmdCount, httpCount, nCalls, workers, LOCK>>
    /\ UNCHANGED driverVars

\* now - start > TWELVE_HOURS
timed_out(rounds) == rounds > TWELVE_HOURS

\* the statements after a polling loop of prow.py: variables.active_slack_objects.remove(so)
Leave(j, msg) == [j EXCEPT !.pc = "returned", !.msgs = Append(@, msg)]

\* ---- prow_job_status

\* what one get_job_state gives: a state, or the exception it raises
JobStates == {"pending", "failure", "success", "aborted"}
FetchErrors == {"ClientResponseError", "KeyError", "ClientConnectorError"}

ProwJobStatusEnter ==
    /\ job.fn = "prow_job_status" /\ job.pc = "request"
    /\ job' = [job EXCEPT !.pc = "loop", !.msgs = Append(@, "I'll respond here when the job completes")]
    /\ active_slack_objects' = active_slack_objects \cup {"so"}
    /\ PollFrame

\* one pass of `while job_state == ProwJobState.PENDING.value`; r is what the fetch gives
ProwJobStatusRound ==
    /\ job.fn = "prow_job_status" /\ job.pc = "loop"
    /\ \E r \in JobStates \cup FetchErrors :
        IF timed_out(job.rounds)
        THEN /\ job' = Leave(job, "didn't complete even after 12 hrs")
             /\ active_slack_objects' = active_slack_objects \ {"so"}
        ELSE IF r = "ClientResponseError"
        THEN /\ job' = Leave([job EXCEPT !.fetches = @ + 1], "Failed fetching job data")
             /\ active_slack_objects' = active_slack_objects \ {"so"}
        ELSE IF r = "KeyError"
        THEN /\ job' = Leave([job EXCEPT !.fetches = @ + 1], "Failed parsing job data")
             /\ active_slack_objects' = active_slack_objects \ {"so"}
        ELSE IF r \in FetchErrors
        THEN \* no except clause takes it: the function is left before the remove
             /\ job' = [job EXCEPT !.fetches = @ + 1, !.pc = "raised"]
             /\ UNCHANGED active_slack_objects
        ELSE IF r # "pending"
        THEN /\ job' = Leave([job EXCEPT !.fetches = @ + 1], "completed with status")
             /\ active_slack_objects' = active_slack_objects \ {"so"}
        ELSE /\ job' = [job EXCEPT !.fetches = @ + 1, !.rounds = @ + 1]
             /\ UNCHANGED active_slack_objects
    /\ PollFrame

\* ---- first_prow_job_succeeds

\* asyncio.gather(..., return_exceptions=True): a state per path, "exc" for an exception
GatherResults(n) == [1..n -> {"pending", "failure", "success", "exc"}]

\* results.pop(index) / paths.pop(index) for every failed index
RECURSIVE pop_failed(_, _, _)
pop_failed(q, results, i) ==
    IF i > Len(q) THEN <<>>
    ELSE IF results[i] = "exc" THEN pop_failed(q, results, i + 1)
    ELSE << q[i] >> \o pop_failed(q, results, i + 1)

FirstProwEnter ==
    /\ job.fn = "first_prow_job_succeeds" /\ job.pc = "request"
    /\ \E n \in 1..MaxJobs :
          job' = [job EXCEPT !.pc = "loop", !.paths = [i \in 1..n |-> i],
                             !.fail_count = 0, !.max_attempts = 3]
    /\ active_slack_objects' = active_slack_objects \cup {"so"}
    /\ PollFrame

\* one pass of `while True`; results is what the gather of this round gives
FirstProwRound ==
    /\ job.fn = "first_prow_job_succeeds" /\ job.pc = "loop"
    /\ \E results \in GatherResults(Len(job.paths)) :
        IF timed_out(job.rounds)
        THEN /\ job' = Leave(job, "no job completed within 12 hrs")
             /\ active_slack_objects' = active_slack_objects \ {"so"}
        ELSE IF \A i \in 1..Len(job.paths) : results[i] = "exc"
        THEN IF job.fail_count >= job.max_attempts
             THEN /\ job' = Leave([job EXCEPT !.fetches = @ + Len(job.paths),
                                              !.all_failed = @ + 1],
                                  "Sorry, failed checking all provided Prow jobs")
                  /\ active_slack_objects' = active_slack_objects \ {"so"}
             ELSE /\ job' = [job EXCEPT !.fetches = @ + Len(job.paths), !.all_failed = @ + 1,
                                        !.rounds = @ + 1, !.max_attempts = @ + 1]
                  /\ UNCHANGED active_slack_objects
        ELSE IF \A i \in 1..Len(job.paths) : results[i] \in {"exc", "failure"}
        THEN /\ job' = Leave([job EXCEPT !.fetches = @ + Len(job.paths), !.all_failed = 0,
                                         !.paths = pop_failed(job.paths, results, 1)],
                             "all jobs failed!")
             /\ active_slack_objects' = active_slack_objects \ {"so"}
        ELSE \* the break after the success message leaves the for loop only
             /\ job' = [job EXCEPT !.fetches = @ + Len(job.paths), !.all_failed = 0,
                                   !.paths = pop_failed(job.paths, results, 1),
                                   !.rounds = @ + 1,
                                   !.msgs = IF \E i \in 1..Len(job.paths) : results[i] = "success"
                                            THEN Append(@, "completed successfully!") ELSE @]
             /\ UNCHANGED active_slack_objects
    /\ PollFrame

\* ---- nightly_color_status

\* get_nightly_color: "" for a phase without a colour (None), or it raises
Colors == {"", "Green", "Red", "exc"}

\* the messages for a colour: the change, and for Red the failed jobs
color_messages(j, first, color) ==
    IF color = "Red" THEN Append(Append(j.msgs, first), "failed jobs") ELSE Append(j.msgs, first)

NightlyColorEnter ==
    /\ job.fn = "nightly_color_status" /\ job.pc = "request"
    /\ \E color \in Colors :
          job' = IF color = "exc" THEN [job EXCEPT !.fetches = @ + 1, !.pc = "raised"]
                 ELSE IF color # ""
                 THEN [job EXCEPT !.fetches = @ + 1, !.pc = "returned",
                                  !.msgs = color_messages(job, "is already", color)]
                 ELSE [job EXCEPT !.fetches = @ + 1, !.pc = "loop",
                                  !.msgs = Append(@, "I'll respond here when tests have finished")]
    /\ active_slack_objects' = IF job'.pc = "loop" THEN active_slack_objects \cup {"so"}
                               ELSE active_slack_objects
    /\ PollFrame

\* one pass of `while True` inside try/finally; color is what the fetch after the sleep gives
NightlyColorRound ==
    /\ job.fn = "nightly_color_status" /\ job.pc = "loop"
    /\ \E color \in Colors :
          job' = IF timed_out(job.rounds) THEN Leave(job, "didn't change even after 12 hrs")
                 ELSE IF color = "exc"
                 THEN [job EXCEPT !.fetches = @ + 1, !.rounds = @ + 1, !.pc = "raised"]
                 ELSE IF color # ""
                 THEN [job EXCEPT !.fetches = @ + 1, !.rounds = @ + 1, !.pc = "returned",
                                  !.msgs = color_messages(job, "changed to", color)]
                 ELSE [job EXCEPT !.fetches = @ + 1, !.rounds = @ + 1]
    /\ active_slack_objects' = IF job'.pc = "loop" THEN active_slack_objects
                               ELSE active_slack_objects \ {"so"}
    /\ PollFrame

\* ---- exectools.sigterm_handler: a restart notice through every active output object
SigtermHandler ==
    /\ ~job.term
    /\ job.pc # "request"
    /\ job' = [job EXCEPT !.term = TRUE,
                          !.msgs = IF "so" \in active_slack_objects
                                   THEN Append(@, "art-bot is restarting") ELSE @]
    /\ UNCHANGED active_slack_objects
    /\ PollFrame

\* ---- alert_on_build_complete, alert_on_task_complete

\* class BuildState(Enum), class TaskState(Enum): the values, and those still in progress
BuildState == {0, 1, 3, 4}
TaskState == {0, 1, 2, 3, 4, 5}
BuildInProgress == {0}
TaskInProgress == {1, 0, 4}

\* what getBuild / getTaskInfo gives: a record with a state, or the exception raised
KojiLookups(states) ==
    {[exc |-> "", state |-> n] : n \in states}
    \cup {[exc |-> e, state |-> 0] : e \in {"GenericError", "Exception"}}

\* one pass of `while True` of either function.  A state outside the enum makes the
\* conversion raise ValueError, and its handler formats build.state / task_info.state of
\* a dict: AttributeError leaves the function before anything is said.
alert_round(j, answer, enum, in_progress) ==
    IF timed_out(j.rounds)
    THEN [j EXCEPT !.pc = "returned", !.msgs = Append(@, "did not complete in 12 hours")]
    ELSE IF answer.exc = "GenericError"
    THEN [j EXCEPT !.pc = "returned", !.fetches = @ + 1, !.last = "GenericError",
                   !.msgs = Append(@, "does not exist")]
    ELSE IF answer.exc # ""
    THEN [j EXCEPT !.pc = "returned", !.fetches = @ + 1, !.last = "Exception",
                   !.msgs = Append(@, "error getting information")]
    ELSE IF answer.state \notin enum
    THEN [j EXCEPT !.pc = "raised", !.fetches = @ + 1, !.last = "not in enum"]
    ELSE IF answer.state \in in_progress
    THEN [j EXCEPT !.fetches = @ + 1, !.last = "in progress", !.rounds = @ + 1]
    ELSE [j EXCEPT !.pc = "returned", !.fetches = @ + 1, !.last = "complete",
                   !.msgs = Append(@, "completed with status")]

AlertEnter ==
    /\ job.fn \in {"alert_on_build_complete", "alert_on_task_complete"} /\ job.pc = "request"
    /\ job' = [job EXCEPT !.pc = "loop", !.msgs = Append(@, "I'll respond here when it completes")]
    /\ UNCHANGED active_slack_objects
    /\ PollFrame

AlertOnBuildRound ==
    /\ job.fn = "alert_on_build_complete" /\ job.pc = "loop"
    /\ \E answer \in KojiLookups(0..4) :
          job' = alert_round(job, answer, BuildState, BuildInProgress)
    /\ UNCHANGED active_slack_objects
    /\ PollFrame

AlertOnTaskRound ==
    /\ job.fn = "alert_on_task_complete" /\ job.pc = "loop"
    /\ \E answer \in KojiLookups(0..6) :
          job' = alert_round(job, answer, TaskState, TaskInProgress)
    /\ UNCHANGED active_slack_objects
    /\ PollFrame

NextPoll ==
    \/ ProwJobStatusEnter
    \/ ProwJobStatusRound
    \/ FirstProwEnter
    \/ FirstProwRound
    \/ NightlyColorEnter
    \/ NightlyColorRound
    \/ AlertEnter
    \/ AlertOnBuildRound
    \/ AlertOnTaskRound
    \/ SigtermHandler

SpecPoll == InitPoll /\ [][NextPoll]_vars

\* C27: in first_prow_job_succeeds, once the success of a watched job has been reported,
\* no step of the request fetches a job state or sends a message again (the restart
\* notice of the SIGTERM handler aside).
C27_StopsAfterFirstSuccess ==
    [][(/\ job.fn = "first_prow_job_succeeds"
        /\ "completed successfully!" \in Range(job.msgs)
        /\ job'.term = job.term)
       => job'.fetches = job.fetches /\ job'.msgs = job.msgs]_vars

\* C28: in first_prow_job_succeeds, the rounds in a row in which the fetch fails for
\* every watched job never number more than 3: the loop has given up by then.
C28_GivesUpAfterThreeFailures ==
    job.fn = "first_prow_job_succeeds" => job.all_failed <= 3

\* the final messages of the two alert functions
AlertFinals ==
    {"completed with status", "did not complete in 12 hours", "does not exist",
     "unhandled status", "error getting information"}

\* C29: alert_on_build_complete and alert_on_task_complete say the acknowledgement and
\* nothing else while they poll, and have ended with exactly one final message after it;
\* the completion message follows a state that is not in progress, and a state outside
\* the enum is followed by the unhandled-status notice.
C29_OneFinalMessage ==
    job.fn \in {"alert_on_build_complete", "alert_on_task_complete"}
    => /\ job.pc = "loop" => Len(job.msgs) = 1
       /\ job.pc \in {"returned", "raised"}
          => /\ Len(job.msgs) = 2
             /\ job.msgs[2] \in AlertFinals
             /\ job.msgs[2] = "completed with status" => job.last = "complete"
             /\ job.last = "not in enum" => job.msgs[2] = "unhandled status"

\* C30: the output object of a prow_job_status, first_prow_job_succeeds or
\* nightly_color_status request is in active_slack_objects exactly while its polling
\* loop runs, so the SIGTERM handler sends no restart notice for an ended request.
C30_ActiveExactlyWhileLooping ==
    job.fn \in {"prow_job_status", "first_prow_job_succeeds", "nightly_color_status"}
    => ("so" \in active_slack_objects <=> job.pc = "loop")

====
